---------------------------- MODULE Spec2Model ----------------------------
(***************************************************************************)
(* Model of the script-assembly engine of fedora-things-to-do:             *)
(*   - src/scripts/builder.py  the refactored resolver, renderers and      *)
(*                             assembler                                   *)
(*   - src/utils/helpers.py    load_nattd, should_quiet_redirect           *)
(*   - src/utils/state.py      AppState                                    *)
(*   - src/builder.py, src/app.py   the legacy builder and its assembler   *)
(*                                                                         *)
(* Python strings are sequences of atoms (words, blanks, "\n"); a Python   *)
(* dict whose iteration order is observable is a sequence of [k, v]        *)
(* entries in insertion order; the top-level options dict is a function    *)
(* from its keys to tagged values.  A call returns a record holding the    *)
(* returned value, whether it raised, and the caller's argument object as  *)
(* the call left it.                                                       *)
(***************************************************************************)
EXTENDS Naturals, Sequences, FiniteSets, TLC

VARIABLES
    nattd,        \* the catalog that load_nattd() returns (nattd.json)
    options,      \* the caller's Selection object
    output_mode,  \* "Quiet" or "Verbose"
    template,     \* the script template text
    app_state,    \* the AppState instance of the session
    op,           \* the operation that ran last
    ret,          \* what that operation returned: [exc, val]
    pre,          \* the caller's Selection object before that operation
    document,     \* the catalog document nattd.json on disk
    cache,        \* the st.cache_data entry of load_nattd
    now,          \* the time, in half hours
    sessions,     \* the renders of independent sessions, by session id
    calls         \* the assembler calls the main panel has made, in order

\* what only the catalog store and the multi-session host change
env == <<document, cache, now, sessions, calls>>

vars == <<nattd, options, output_mode, template, app_state, op, ret, pre,
          document, cache, now, sessions, calls>>

---------------------------------------------------------------------------
(* Bounds of the model *)

\* most entries of a Selection's system_config map
MaxSysEntries == 2

\* essential apps in the catalog
MaxEssentialApps == 3

\* most atoms appended to the standard template
MaxTemplateTail == 4

\* the clock steps a session may last
MaxTicks == 3

\* the assembler calls a session of the page makes
MaxCalls == 3

---------------------------------------------------------------------------
(* Python strings *)

\* str.startswith
StartsWith(s, p) == Len(p) <= Len(s) /\ SubSeq(s, 1, Len(p)) = p

\* the `in` operator on strings
Contains(s, p) ==
    \E i \in 1..(Len(s) + 1) :
        i + Len(p) - 1 <= Len(s) /\ SubSeq(s, i, i + Len(p) - 1) = p

\* where the leftmost occurrence of p in s starts
Find(s, p) ==
    CHOOSE i \in 1..(Len(s) + 1) :
        /\ i + Len(p) - 1 <= Len(s) /\ SubSeq(s, i, i + Len(p) - 1) = p
        /\ \A j \in 1..(i - 1) : SubSeq(s, j, j + Len(p) - 1) # p

\* str.replace(old, new) for a non-empty old: the non-overlapping occurrences
\* found scanning left to right, in one pass
RECURSIVE Replace(_, _, _)
Replace(s, old, new) ==
    IF ~Contains(s, old) THEN s
    ELSE SubSeq(s, 1, Find(s, old) - 1) \o new
         \o Replace(SubSeq(s, Find(s, old) + Len(old), Len(s)), old, new)

Whitespace == {" ", "\n"}

RECURSIVE LStrip(_)
LStrip(s) == IF s # <<>> /\ s[1] \in Whitespace THEN LStrip(Tail(s)) ELSE s

RECURSIVE RStrip(_)
RStrip(s) ==
    IF s # <<>> /\ s[Len(s)] \in Whitespace
    THEN RStrip(SubSeq(s, 1, Len(s) - 1)) ELSE s

\* str.strip
Strip(s) == RStrip(LStrip(s))

\* "\n".join(lines)
RECURSIVE Join(_)
Join(lines) ==
    IF lines = <<>> THEN <<>>
    ELSE IF Len(lines) = 1 THEN lines[1]
    ELSE lines[1] \o <<"\n">> \o Join(Tail(lines))

\* the lines of a text (str.split("\n")), used to read a rendered section
RECURSIVE Lines(_)
Lines(s) ==
    IF \A i \in 1..Len(s) : s[i] # "\n" THEN <<s>>
    ELSE LET i == CHOOSE j \in 1..Len(s) :
                    s[j] = "\n" /\ \A m \in 1..(j - 1) : s[m] # "\n"
         IN <<SubSeq(s, 1, i - 1)>> \o Lines(SubSeq(s, i + 1, Len(s)))

---------------------------------------------------------------------------
(* Python dicts and values *)

Has(d, k) == \E i \in 1..Len(d) : d[i].k = k
Idx(d, k) == CHOOSE i \in 1..Len(d) : d[i].k = k
\* d.get(k, default)
Get(d, k, default) == IF Has(d, k) THEN d[Idx(d, k)].v ELSE default
\* d[k] = v: an existing key keeps its place, a new key goes last
Put(d, k, v) ==
    IF Has(d, k) THEN [d EXCEPT ![Idx(d, k)].v = v]
    ELSE Append(d, [k |-> k, v |-> v])
Keys(d) == {d[i].k : i \in 1..Len(d)}
\* the entries of a dict
Range(d) == {d[i] : i \in 1..Len(d)}

\* values held under the top-level keys of an options dict
DictVal(items) == [t |-> "dict", items |-> items]
StrVal(s) == [t |-> "str", items |-> s]
NoneVal == [t |-> "none", items |-> <<>>]

\* what a call hands back: the value, or the exception it raised, and the
\* caller's argument object after the call
Returned(val, caller) == [exc |-> FALSE, val |-> val, caller |-> caller]
Raised(msg, caller) == [exc |-> TRUE, val |-> msg, caller |-> caller]

---------------------------------------------------------------------------
(* Dependency resolution: src/scripts/builder.py check_dependencies *)

codec_options ==
    <<"install_multimedia_codecs", "install_intel_codecs", "install_amd_codecs">>

\* any(option in system_config and system_config.get(option, False) ...)
AnyCodecSelected(system_config) ==
    \E i \in 1..Len(codec_options) :
        Has(system_config, codec_options[i])
        /\ Get(system_config, codec_options[i], FALSE)

\* the dict comprehension without v.copy(): every value object stays the caller's
SharedAfterCopy_no_copy(opts) == DOMAIN opts

\* {k: v.copy() if isinstance(v, dict) else v ...}: the keys whose value object
\* the new dict still shares with the caller's dict
SharedAfterCopy(opts) == {k \in DOMAIN opts : opts[k].t # "dict"}

\* system_config = {"enable_rpmfusion": True}: the other entries are lost
ForceEnable_only(system_config) == <<[k |-> "enable_rpmfusion", v |-> TRUE]>>

\* system_config.setdefault("enable_rpmfusion", True): keeps a present False
ForceEnable_setdefault(system_config) ==
    IF Has(system_config, "enable_rpmfusion") THEN system_config
    ELSE Append(system_config, [k |-> "enable_rpmfusion", v |-> TRUE])

\* flips the flag instead of setting it
ForceEnable_toggle(system_config) ==
    Put(system_config, "enable_rpmfusion",
        ~Get(system_config, "enable_rpmfusion", FALSE))

\* system_config["enable_rpmfusion"] = True
ForceEnable(system_config) == Put(system_config, "enable_rpmfusion", TRUE)

check_dependencies(opts) ==
    LET shared == SharedAfterCopy(opts)
        updated_options ==
            IF "system_config" \in DOMAIN opts THEN opts
            ELSE ("system_config" :> DictVal(<<>>)) @@ opts
        system_config == updated_options["system_config"]
    IN  IF system_config.t # "dict"
        THEN Raised(<<"argument of type 'NoneType' is not iterable">>, opts)
        ELSE IF AnyCodecSelected(system_config.items)
        THEN LET written == DictVal(ForceEnable(system_config.items))
             IN  Returned([updated_options EXCEPT !["system_config"] = written],
                          IF "system_config" \in shared
                          THEN [opts EXCEPT !["system_config"] = written]
                          ELSE opts)
        ELSE Returned(updated_options, opts)

---------------------------------------------------------------------------
(* Dependency resolution of the legacy builder: src/builder.py *)

\* works on the caller's dict and returns that same object
legacy_check_dependencies(opts) ==
    IF "system_config" \notin DOMAIN opts
    THEN Raised(<<"'system_config'">>, opts)
    ELSE IF opts["system_config"].t # "dict"
    THEN Raised(<<"'NoneType' object has no attribute 'get'">>, opts)
    ELSE IF \E i \in 1..Len(codec_options) :
                Get(opts["system_config"].items, codec_options[i], FALSE)
    THEN LET written ==
                 [opts EXCEPT !["system_config"] =
                     DictVal(ForceEnable(opts["system_config"].items))]
         IN  Returned(written, written)
    ELSE Returned(opts, opts)

---------------------------------------------------------------------------
(* Catalog entries (nattd.json) *)

\* an option carrying a command list (a single command is a list of one)
Entry(name, description, command) ==
    [name |-> name, description |-> description,
     has_command |-> TRUE, command |-> command,
     has_installation_types |-> FALSE, installation_types |-> <<>>]

\* an option carrying installation types: type -> [command, dependencies]
TypedEntry(name, description, installation_types) ==
    [name |-> name, description |-> description,
     has_command |-> FALSE, command |-> <<>>,
     has_installation_types |-> TRUE,
     installation_types |-> installation_types]

InstallType(k, command, dependencies) ==
    [k |-> k, v |-> [has_command |-> TRUE, command |-> command,
                     dependencies |-> dependencies]]

\* flattens a sequence of sequences
RECURSIVE Flatten(_)
Flatten(ss) == IF ss = <<>> THEN <<>> ELSE ss[1] \o Flatten(Tail(ss))

---------------------------------------------------------------------------
(* Verbosity: src/utils/helpers.py should_quiet_redirect, and the legacy   *)
(* src/builder.py should_quiet_redirect                                    *)

QuietSuffix == " > /dev/null 2>&1"

\* the redirection whatever the output mode
quiet_redirect_always(mode) == <<QuietSuffix>>

\* quiet_redirect = " > /dev/null 2>&1" if output_mode == "Quiet" else ""
quiet_redirect(mode) == IF mode = "Quiet" THEN <<QuietSuffix>> ELSE <<>>

noisy_patterns == {<<"dnf", " ", "update">>, <<"dnf", " ", "upgrade">>, <<"reboot">>}

supported_colors == {"\"red\"", "\"green\"", "\"yellow\"", "\"blue\""}

should_quiet_redirect(command) ==
    LET command_clean == Strip(command)
    IN  IF StartsWith(command_clean, <<"color_echo">>)
           /\ \E color \in supported_colors :
                  StartsWith(command_clean, <<"color_echo", " ", color>>)
        THEN FALSE
        ELSE ~ \E pattern \in noisy_patterns : Contains(command, pattern)

no_redirect_patterns == {"log_message", "echo", "printf", "read", "prompt_", "EOF"}

legacy_should_quiet_redirect(cmd) ==
    ~ \E pattern \in no_redirect_patterns :
          StartsWith(cmd, <<pattern>>) \/ Contains(cmd, <<"EOF">>)

---------------------------------------------------------------------------
(* Section renderers: src/scripts/builder.py *)

HostnameToken == <<"{", "hostname", "}">>
DefaultHostname == <<"fedora-workstation">>

build_system_upgrade(opts, mode) ==
    Returned(Join(<< <<"color_echo", " ", "\"blue\"", " ",
                       "\"Performing system upgrade... This may take a while...\"">>,
                     <<"dnf", " ", "upgrade", " ", "-y">> \o quiet_redirect(mode),
                     <<>> >>),
             opts)

\* cmd.replace("{hostname}", hostname) for the set_hostname option; raises
\* TypeError when the hostname value is not a string
SubstituteHostname(option, cmd, opts) ==
    IF option = "set_hostname" /\ Contains(cmd, <<"hostnamectl", " ", "set-hostname">>)
    THEN IF "hostname" \notin DOMAIN opts
         THEN Returned(Replace(cmd, HostnameToken, DefaultHostname), opts)
         ELSE IF opts["hostname"].t # "str"
         THEN Raised(<<"replace() argument 2 must be str, not None">>, opts)
         ELSE Returned(Replace(cmd, HostnameToken, opts["hostname"].items), opts)
    ELSE Returned(cmd, opts)

\* the statements of one enabled system_config option
SystemConfigBlock(option, entry, opts, mode) ==
    IF ~entry.has_command
    THEN Returned(<< <<"# Error: Invalid configuration for ", option>> >>, opts)
    ELSE LET cmds == [i \in 1..Len(entry.command) |->
                         SubstituteHostname(option, entry.command[i], opts)]
         IN  IF \E i \in 1..Len(cmds) : cmds[i].exc
             THEN Raised(cmds[CHOOSE i \in 1..Len(cmds) : cmds[i].exc].val, opts)
             ELSE Returned(
                     << <<"# ">> \o entry.description >>
                     \o [i \in 1..Len(cmds) |->
                            IF mode = "Quiet" /\ should_quiet_redirect(cmds[i].val)
                            THEN cmds[i].val \o quiet_redirect(mode)
                            ELSE cmds[i].val]
                     \o << <<>> >>,
                     opts)

build_system_config(opts, mode) ==
    LET resolved == check_dependencies(opts)
    IN  IF resolved.exc THEN resolved    \* raised outside the try block
        ELSE IF "system_config" \notin DOMAIN nattd
        THEN Returned(<<"# Error: System configuration data not found", "\n">>,
                      resolved.caller)
        ELSE
        LET o == resolved.val
            system_config == nattd["system_config"]
            selected == o["system_config"].items
            blocks == [i \in 1..Len(selected) |->
                          IF selected[i].v /\ Has(system_config, selected[i].k)
                          THEN SystemConfigBlock(selected[i].k,
                                   Get(system_config, selected[i].k, <<>>), o, mode)
                          ELSE Returned(<<>>, o)]
        IN  IF \E i \in 1..Len(blocks) : blocks[i].exc
            THEN Returned(<<"# Error building system configuration: ">>
                          \o blocks[CHOOSE i \in 1..Len(blocks) :
                                       blocks[i].exc
                                       /\ \A j \in 1..(i - 1) : ~blocks[j].exc].val
                          \o <<"\n">>,
                          resolved.caller)
            ELSE Returned(Join(Flatten([i \in 1..Len(blocks) |-> blocks[i].val])),
                          resolved.caller)

\* f"{cmd}{quiet_redirect if should_quiet_redirect(cmd) else ''}" for a command
\* list; a missing command (the '' default of .get) is rendered as one line
RedirectAll(has_command, commands, mode) ==
    IF has_command
    THEN [i \in 1..Len(commands) |->
             IF should_quiet_redirect(commands[i])
             THEN commands[i] \o quiet_redirect(mode) ELSE commands[i]]
    ELSE << quiet_redirect(mode) >>

\* applies the selection filter of the essential-apps list comprehension
EssentialSelected_all(installed, selected) == installed

\* [app for app in nattd["essential_apps"]["apps"]
\*      if options["essential_apps"].get(app["name"], False)]
EssentialSelected(installed, selected) ==
    SelectSeq(installed, LAMBDA app : Get(selected, app.name, FALSE))

\* " ".join(names)
RECURSIVE JoinNames(_)
JoinNames(apps) ==
    IF apps = <<>> THEN <<>>
    ELSE IF Len(apps) = 1 THEN <<apps[1].name>>
    ELSE <<apps[1].name, " ">> \o JoinNames(Tail(apps))

\* the essential-apps part of build_app_install
EssentialLines(opts, mode) ==
    IF "essential_apps" \in DOMAIN opts /\ "essential_apps" \in DOMAIN nattd
    THEN IF opts["essential_apps"].t # "dict" /\ nattd["essential_apps"] # <<>>
         THEN Raised(<<"'NoneType' object has no attribute 'get'">>, opts)
         ELSE LET essential_apps ==
                      EssentialSelected(nattd["essential_apps"],
                                        opts["essential_apps"].items)
              IN  IF essential_apps # <<>>
                  THEN Returned(
                         << <<"# Install essential applications">>,
                            <<"color_echo", " ", "\"yellow\"", " ",
                              "\"Installing essential applications...\"">>,
                            <<"dnf", " ", "install", " ", "-y", " ">>
                                \o JoinNames(essential_apps) \o quiet_redirect(mode),
                            <<"color_echo", " ", "\"green\"", " ",
                              "\"Essential applications installed successfully.\"">>,
                            <<>> >>, opts)
                  ELSE Returned(<<>>, opts)
    ELSE Returned(<<>>, opts)

\* the lines of one selected additional app
AppLines(app_id, choice, apps, mode) ==
    IF ~Has(apps, app_id)
    THEN << <<"# Warning: App ", app_id, " not found in configuration">> >>
    ELSE
    LET app_data == Get(apps, app_id, <<>>)
        app_name == app_data.name
        installing == <<"color_echo", " ", "\"yellow\"", " ", "\"Installing ">>
                      \o app_name \o <<"...\"">>
        typed == app_data.has_installation_types /\ choice.has_installation_type
        install_type == choice.installation_type
        found == Has(app_data.installation_types, install_type)
        chosen == Get(app_data.installation_types, install_type, <<>>)
        has_command == IF typed THEN chosen.has_command ELSE app_data.has_command
        commands == IF typed THEN chosen.command ELSE app_data.command
    IN  IF typed /\ ~found
        THEN << installing,
                <<"# Warning: Installation type ", install_type, " not found for ">>
                    \o app_name >>
        ELSE IF ~has_command \/ commands = <<>>
        THEN << installing, <<"# Warning: No command found for ">> \o app_name >>
        ELSE << installing >>
             \o RedirectAll(TRUE, commands, mode)
             \o << <<"color_echo", " ", "\"green\"", " ", "\"">> \o app_name
                   \o <<" installed successfully.\"">> >>
             \o (IF app_id = "install_docker"
                 THEN << <<"# Note: Docker group changes will take effect after logging out and back in">> >>
                 ELSE <<>>)

\* the lines of one category of the Selection's additional_apps
CategoryLines(category, category_data, mode) ==
    IF ~Has(nattd["additional_apps"], category) THEN <<>>
    ELSE
    LET cat == Get(nattd["additional_apps"], category, <<>>)
        category_apps == SelectSeq(category_data, LAMBDA e : e.v.selected)
    IN  IF category_apps = <<>> THEN <<>>
        ELSE << <<"# Install ">> \o cat.name \o <<" applications">> >>
             \o Flatten([i \in 1..Len(category_apps) |->
                            AppLines(category_apps[i].k, category_apps[i].v,
                                     cat.apps, mode)])
             \o << <<>> >>

build_app_install(opts, mode) ==
    LET essential == EssentialLines(opts, mode)
        error(msg) == Returned(<<"# Error building application installation: ">>
                               \o msg \o <<"\n">>, opts)
    IN  IF essential.exc THEN error(essential.val)
        ELSE IF "additional_apps" \in DOMAIN opts /\ "additional_apps" \in DOMAIN nattd
        THEN IF opts["additional_apps"].t # "dict"
             THEN error(<<"'NoneType' object has no attribute 'items'">>)
             ELSE LET cats == opts["additional_apps"].items
                  IN  Returned(Join(essential.val
                          \o Flatten([i \in 1..Len(cats) |->
                                 CategoryLines(cats[i].k, cats[i].v, mode)])), opts)
        ELSE Returned(Join(essential.val), opts)

\* the lines of one item of the Selection's customization map; app_value is
\* a boolean (form "bool") or {selected, installation_type} (form "dict")
CustomizationLines(app_id, app_value, customization_apps, mode) ==
    IF ~Has(customization_apps, app_id) THEN <<>>
    ELSE
    LET app_data == Get(customization_apps, app_id, <<>>)
        app_name == app_data.name
        description == app_data.description
        install_type == app_value.installation_type
        label == <<" (", install_type, ")">>
    IN  IF app_value.form = "dict" /\ app_value.selected
        THEN IF app_value.has_installation_type /\ app_data.has_installation_types
             THEN IF ~Has(app_data.installation_types, install_type)
                  THEN << <<"# Warning: Installation type ", install_type,
                            " not found for ">> \o app_name >>
                  ELSE LET chosen == Get(app_data.installation_types, install_type, <<>>)
                       IN  << <<"# ">> \o description \o label,
                              <<"color_echo", " ", "\"yellow\"", " ", "\"Installing ">>
                                  \o app_name \o label \o <<"...\"">> >>
                           \o RedirectAll(chosen.has_command, chosen.command, mode)
                           \o << <<"color_echo", " ", "\"green\"", " ", "\"">>
                                     \o app_name \o label
                                     \o <<" installed successfully.\"">>,
                                 <<>> >>
             ELSE <<>>
        ELSE IF (app_value.form = "dict" \/ app_value.selected) /\ app_data.has_command
        THEN << <<"# ">> \o description,
                <<"color_echo", " ", "\"yellow\"", " ", "\"Installing ">>
                    \o app_name \o <<"...\"">> >>
             \o RedirectAll(TRUE, app_data.command, mode)
             \o << <<"color_echo", " ", "\"green\"", " ", "\"">> \o app_name
                       \o <<" installed successfully.\"">>,
                   <<>> >>
        ELSE <<>>

build_customization(opts, mode) ==
    IF "customization" \notin DOMAIN nattd
    THEN Returned(<<"# No customization options available", "\n">>, opts)
    ELSE IF "customization" \notin DOMAIN opts
    THEN Returned(<<"# No customization options selected", "\n">>, opts)
    ELSE IF opts["customization"].t # "dict"
    THEN Returned(<<"# Error building customization: ",
                    "'NoneType' object has no attribute 'items'", "\n">>, opts)
    ELSE LET items == opts["customization"].items
         IN  Returned(Join(Flatten([i \in 1..Len(items) |->
                 CustomizationLines(items[i].k, items[i].v,
                                    nattd["customization"], mode)])), opts)

\* without the emptiness test the heading is written for an empty text too
build_custom_script_no_strip(opts, mode) ==
    IF "custom_script" \notin DOMAIN opts THEN Returned(<<>>, opts)
    ELSE Returned(<<"# Custom user-defined commands", "\n">>
                  \o opts["custom_script"].items \o <<"\n">>, opts)

build_custom_script(opts, mode) ==
    IF "custom_script" \notin DOMAIN opts THEN Returned(<<>>, opts)
    ELSE IF opts["custom_script"].t # "str"
    THEN Raised(<<"'NoneType' object has no attribute 'strip'">>, opts)
    ELSE LET custom_script == Strip(opts["custom_script"].items)
         IN  IF custom_script # <<>>
             THEN Returned(<<"# Custom user-defined commands", "\n">>
                           \o custom_script \o <<"\n">>, opts)
             ELSE Returned(<<>>, opts)

---------------------------------------------------------------------------
(* Assembler: src/scripts/builder.py build_script, build_full_script *)

placeholders ==
    <<"system_upgrade", "system_config", "app_install", "customization", "custom_script">>

\* placeholder.replace('_', ' ').title()
Title(placeholder) ==
    CASE placeholder = "system_upgrade" -> "System Upgrade"
      [] placeholder = "system_config" -> "System Config"
      [] placeholder = "app_install" -> "App Install"
      [] placeholder = "customization" -> "Customization"
      [] placeholder = "custom_script" -> "Custom Script"

\* the renderer calls that follow build_system_config in the script_parts
\* dict display; they see the caller's object as that call left it
PartsAfterConfig(upgrade, config, install, customization, custom) ==
    IF custom.exc THEN Raised(custom.val, config.caller)
    ELSE Returned(<<upgrade.val, config.val, install.val,
                    customization.val, custom.val>>, config.caller)

PartsFromConfig(upgrade, config, mode) ==
    IF config.exc THEN config
    ELSE PartsAfterConfig(upgrade, config,
                          build_app_install(config.caller, mode),
                          build_customization(config.caller, mode),
                          build_custom_script(config.caller, mode))

\* the five renderer calls of the script_parts dict display, in order; the
\* first raising call ends the evaluation
ScriptParts(opts, mode) ==
    PartsFromConfig(build_system_upgrade(opts, mode),
                    build_system_config(opts, mode), mode)

PreviewHeader == <<"(...)  # Script header and initial setup", "\n", "\n">>
PreviewFooter == <<"(...)  # Script footer">>

RECURSIVE PreviewBody(_, _)
PreviewBody(parts, i) ==
    IF i > Len(parts) THEN <<>>
    ELSE (IF Strip(parts[i]) # <<>>
          THEN <<"# ", Title(placeholders[i]), "\n">> \o parts[i] \o <<"\n", "\n">>
          ELSE <<>>)
         \o PreviewBody(parts, i + 1)

\* the preview assembled from the five parts
Preview(parts) ==
    Returned(PreviewHeader \o PreviewBody(parts.val, 1) \o PreviewFooter,
             parts.caller)

\* the except branch of build_script
PreviewError(parts) ==
    Returned(<<"# Error building script preview: ">> \o parts.val
             \o <<"\n", "# Please check the logs for more information.">>,
             parts.caller)

\* without the try block an exception reaches the caller
PreviewOf_no_try(parts) == IF parts.exc THEN parts ELSE Preview(parts)

PreviewOf(parts) == IF parts.exc THEN PreviewError(parts) ELSE Preview(parts)

build_script(opts, mode) == PreviewOf(ScriptParts(opts, mode))

\* the slot token "{{<placeholder>}}"
Slot(placeholder) == <<"{", "{", placeholder, "}", "}">>

RECURSIVE FillSlots(_, _, _)
FillSlots(text, parts, i) ==
    IF i > Len(parts) THEN text
    ELSE FillSlots(Replace(text, Slot(placeholders[i]), parts[i]), parts, i + 1)

\* the fallback script of build_full_script's except branch
ErrorScript(msg) ==
    <<"#!/bin/bash", "\n", "\n">>
    \o <<"echo", " ", "\"Error building script: ">> \o msg \o <<"\"", "\n">>
    \o <<"echo", " ", "\"Please check the logs for more information.\"", "\n">>

\* without the else branch a Selection with no hostname key keeps the raw token
ReplaceHostname_no_default(full_script, opts) ==
    IF "hostname" \in DOMAIN opts
    THEN IF opts["hostname"].t # "str"
         THEN Raised(<<"replace() argument 2 must be str, not None">>, opts)
         ELSE Returned(Replace(full_script, HostnameToken, opts["hostname"].items),
                       opts)
    ELSE Returned(full_script, opts)

\* full_script.replace("{hostname}", ...): the Selection's hostname, or the
\* default when the key is absent; raises TypeError when it is not a string
ReplaceHostname(full_script, opts) ==
    IF "hostname" \in DOMAIN opts
    THEN IF opts["hostname"].t # "str"
         THEN Raised(<<"replace() argument 2 must be str, not None">>, opts)
         ELSE Returned(Replace(full_script, HostnameToken, opts["hostname"].items),
                       opts)
    ELSE Returned(Replace(full_script, HostnameToken, DefaultHostname), opts)

\* the try body of build_full_script, given the five parts
FullOf(tmpl, parts, opts) ==
    IF parts.exc THEN parts
    ELSE ReplaceHostname(FillSlots(tmpl, parts.val, 1), parts.caller)

\* without the try block an exception reaches the caller
Guarded_no_try(r) == r

\* the except branch of build_full_script: the fallback script
Guarded(r) == IF r.exc THEN Returned(ErrorScript(r.val), r.caller) ELSE r

build_full_script(tmpl, opts, mode) ==
    Guarded(FullOf(tmpl, ScriptParts(opts, mode), opts))

\* the renderers in the order of the script_parts dict display
RendererNames ==
    <<"build_system_upgrade", "build_system_config", "build_app_install",
      "build_customization", "build_custom_script">>

\* what the renderer `name` returns
RenderOf(name, opts, mode) ==
    CASE name = "build_system_upgrade" -> build_system_upgrade(opts, mode)
      [] name = "build_system_config" -> build_system_config(opts, mode)
      [] name = "build_app_install" -> build_app_install(opts, mode)
      [] name = "build_customization" -> build_customization(opts, mode)
      [] name = "build_custom_script" -> build_custom_script(opts, mode)

\* the command list with what the loop made of each cmd stored back in it
CommandsAfter_written_back(option, entry, opts, mode) ==
    [i \in 1..Len(entry.command) |->
        LET cmd == SubstituteHostname(option, entry.command[i], opts).val
        IN  IF mode = "Quiet" /\ should_quiet_redirect(cmd)
            THEN cmd \o quiet_redirect(mode) ELSE cmd]

\* the command list of a catalog entry after build_system_config: cmd is a
\* local name that replace and += rebind; the list is never assigned to
CommandsAfter(option, entry, opts, mode) == entry.command

\* the catalog load_nattd returned, after the renderer `name` has run on it
CatalogAfter(name, catalog, opts, mode) ==
    IF name # "build_system_config" \/ "system_config" \notin DOMAIN opts
       \/ opts["system_config"].t # "dict"
    THEN catalog
    ELSE LET system_config == catalog["system_config"]
         IN  [catalog EXCEPT !["system_config"] =
                 [i \in 1..Len(system_config) |->
                     IF Get(opts["system_config"].items, system_config[i].k, FALSE)
                        /\ system_config[i].v.has_command
                     THEN [k |-> system_config[i].k,
                           v |-> [system_config[i].v EXCEPT !.command =
                                     CommandsAfter(system_config[i].k,
                                                   system_config[i].v, opts, mode)]]
                     ELSE system_config[i]]]

---------------------------------------------------------------------------
(* Section renderers of the legacy builder: src/builder.py *)

legacy_build_system_upgrade(opts, mode) ==
    Returned(Join(<< <<"log_message", " ",
                       "\"Performing system upgrade... This may take a while...\"">>,
                     <<"dnf", " ", "upgrade", " ", "-y">> \o quiet_redirect(mode),
                     <<>> >>),
             opts)

\* f"{cmd}{quiet_redirect if should_quiet_redirect(cmd) else ''}"
LegacyRedirectAll(commands, mode) ==
    [i \in 1..Len(commands) |->
        IF legacy_should_quiet_redirect(commands[i])
        THEN commands[i] \o quiet_redirect(mode) ELSE commands[i]]

\* the statements of one enabled system_config option
LegacySystemConfigBlock(option, entry, mode) ==
    << <<"# ">> \o entry.description >>
    \o LegacyRedirectAll(
           [i \in 1..Len(entry.command) |->
               IF option = "set_hostname"
                  /\ Contains(entry.command[i], <<"hostnamectl", " ", "set-hostname">>)
               THEN entry.command[i] \o <<" ">> \o HostnameToken
               ELSE entry.command[i]], mode)
    \o << <<>> >>

\* no try block: every exception reaches the caller
legacy_build_system_config(opts, mode) ==
    LET resolved == legacy_check_dependencies(opts)
    IN  IF resolved.exc THEN resolved
        ELSE IF "system_config" \notin DOMAIN nattd
        THEN Raised(<<"'system_config'">>, resolved.caller)
        ELSE
        LET system_config == nattd["system_config"]
            selected == resolved.val["system_config"].items
            enabled(i) == selected[i].v /\ Has(system_config, selected[i].k)
        IN  IF \E i \in 1..Len(selected) :
                   enabled(i) /\ ~Get(system_config, selected[i].k, <<>>).has_command
            THEN Raised(<<"'command'">>, resolved.caller)
            ELSE Returned(Join(Flatten([i \in 1..Len(selected) |->
                     IF enabled(i)
                     THEN LegacySystemConfigBlock(selected[i].k,
                              Get(system_config, selected[i].k, <<>>), mode)
                     ELSE <<>>])), resolved.caller)

\* the lines of one selected additional app; raises KeyError on a missing key
LegacyAppLines(app_id, choice, apps, mode) ==
    IF ~Has(apps, app_id) THEN Raised(<<"'", app_id, "'">>, <<>>)
    ELSE
    LET app_data == Get(apps, app_id, <<>>)
        typed == app_data.has_installation_types /\ choice.has_installation_type
        install_type == choice.installation_type
        chosen == Get(app_data.installation_types, install_type, <<>>)
    IN  IF typed /\ ~Has(app_data.installation_types, install_type)
        THEN Raised(<<"'", install_type, "'">>, <<>>)
        ELSE IF (typed /\ ~chosen.has_command) \/ (~typed /\ ~app_data.has_command)
        THEN Raised(<<"'command'">>, <<>>)
        ELSE Returned(
               << <<"log_message", " ", "\"Installing ">> \o app_data.name
                      \o <<"...\"">> >>
               \o LegacyRedirectAll(IF typed THEN chosen.command
                                    ELSE app_data.command, mode)
               \o << <<"log_message", " ", "\"">> \o app_data.name
                         \o <<" installed successfully.\"">> >>
               \o (IF app_id = "install_docker"
                   THEN << <<"# Note: Docker group changes will take effect after logging out and back in">> >>
                   ELSE <<>>), <<>>)

\* the lines of one category of the Selection's additional_apps
LegacyCategoryLines(category, category_data, mode) ==
    LET category_apps == SelectSeq(category_data, LAMBDA e : e.v.selected)
        cat == Get(nattd["additional_apps"], category, <<>>)
        apps == [i \in 1..Len(category_apps) |->
                    LegacyAppLines(category_apps[i].k, category_apps[i].v,
                                   cat.apps, mode)]
    IN  IF category_apps = <<>> THEN Returned(<<>>, <<>>)
        ELSE IF ~Has(nattd["additional_apps"], category)
        THEN Raised(<<"'", category, "'">>, <<>>)
        ELSE IF \E i \in 1..Len(apps) : apps[i].exc
        THEN Raised(apps[CHOOSE i \in 1..Len(apps) : apps[i].exc
                             /\ \A j \in 1..(i - 1) : ~apps[j].exc].val, <<>>)
        ELSE Returned(<< <<"# Install ">> \o cat.name \o <<" applications">> >>
                      \o Flatten([i \in 1..Len(apps) |-> apps[i].val])
                      \o << <<>> >>, <<>>)

legacy_build_app_install(opts, mode) ==
    IF "essential_apps" \notin DOMAIN nattd
    THEN Raised(<<"'essential_apps'">>, opts)
    ELSE IF "essential_apps" \notin DOMAIN opts
    THEN Raised(<<"'essential_apps'">>, opts)
    ELSE IF opts["essential_apps"].t # "dict" /\ nattd["essential_apps"] # <<>>
    THEN Raised(<<"'NoneType' object has no attribute 'get'">>, opts)
    ELSE
    LET essential_apps == EssentialSelected(nattd["essential_apps"],
                                            opts["essential_apps"].items)
        essential ==
            IF essential_apps # <<>>
            THEN << <<"# Install essential applications">>,
                    <<"log_message", " ", "\"Installing essential applications...\"">>,
                    <<"dnf", " ", "install", " ", "-y", " ">>
                        \o JoinNames(essential_apps) \o quiet_redirect(mode),
                    <<"log_message", " ",
                      "\"Essential applications installed successfully.\"">>,
                    <<>> >>
            ELSE <<>>
    IN  IF "additional_apps" \notin DOMAIN opts
        THEN Raised(<<"'additional_apps'">>, opts)
        ELSE IF opts["additional_apps"].t # "dict"
        THEN Raised(<<"'NoneType' object has no attribute 'items'">>, opts)
        ELSE
        LET cats == opts["additional_apps"].items
            blocks == [i \in 1..Len(cats) |->
                          LegacyCategoryLines(cats[i].k, cats[i].v, mode)]
        IN  IF \E i \in 1..Len(blocks) : blocks[i].exc
            THEN Raised(blocks[CHOOSE i \in 1..Len(blocks) : blocks[i].exc
                                   /\ \A j \in 1..(i - 1) : ~blocks[j].exc].val, opts)
            ELSE Returned(Join(essential
                     \o Flatten([i \in 1..Len(blocks) |-> blocks[i].val])), opts)

---------------------------------------------------------------------------
(* Session state: src/utils/state.py AppState *)

\* AppState(): the dataclass defaults; custom_script is no attribute yet
NewAppState ==
    [system_config |-> DictVal(<<>>), essential_apps |-> DictVal(<<>>),
     additional_apps |-> DictVal(<<>>), customization |-> DictVal(<<>>),
     hostname |-> NoneVal, has_custom_script |-> FALSE, custom_script |-> NoneVal,
     output_mode |-> "Verbose", script_built |-> FALSE, full_script |-> NoneVal,
     dependency_notifications |-> <<>>]

get_options(self) ==
    [k \in {"system_config", "essential_apps", "additional_apps", "customization"}
         |-> self[k]]
    @@ (IF self.hostname.t # "none" THEN "hostname" :> self.hostname ELSE <<>>)
    @@ (IF self.has_custom_script THEN "custom_script" :> self.custom_script ELSE <<>>)

\* options.get(section, {})
SectionOrEmpty(opts, section) ==
    IF section \in DOMAIN opts THEN opts[section] ELSE DictVal(<<>>)

_update_state(self, opts) ==
    [self EXCEPT
        !.system_config = SectionOrEmpty(opts, "system_config"),
        !.essential_apps = SectionOrEmpty(opts, "essential_apps"),
        !.additional_apps = SectionOrEmpty(opts, "additional_apps"),
        !.customization = SectionOrEmpty(opts, "customization"),
        !.hostname = IF "hostname" \in DOMAIN opts THEN opts["hostname"] ELSE @,
        !.has_custom_script = @ \/ "custom_script" \in DOMAIN opts,
        !.custom_script = IF "custom_script" \in DOMAIN opts
                          THEN opts["custom_script"] ELSE @]

\* the names src/scripts/builder.py defines at module level
scripts_builder_names ==
    {"check_dependencies", "build_system_upgrade", "build_system_config",
     "build_app_install", "build_customization", "build_custom_script",
     "build_script", "build_full_script", "load_config",
     "generate_system_upgrade", "generate_system_config", "generate_app_install",
     "generate_customization", "main"}

\* the Selection's choice for an app of the catalog
NoChoice == [selected |-> FALSE, has_installation_type |-> FALSE, installation_type |-> ""]
ChoiceOf(opts, category, app_id) ==
    IF "additional_apps" \in DOMAIN opts /\ opts["additional_apps"].t = "dict"
       /\ Has(opts["additional_apps"].items, category)
       /\ Has(Get(opts["additional_apps"].items, category, <<>>), app_id)
    THEN Get(Get(opts["additional_apps"].items, category, <<>>), app_id, NoChoice)
    ELSE NoChoice

\* the chosen installation type of the app lists the repository option
RequiresRpmfusion(choice, app_data) ==
    /\ choice.selected /\ choice.has_installation_type
    /\ app_data.has_installation_types
    /\ Has(app_data.installation_types, choice.installation_type)
    /\ LET deps == Get(app_data.installation_types,
                       choice.installation_type, <<>>).dependencies
       IN  \E i \in 1..Len(deps) : deps[i] = "enable_rpmfusion"

\* the apps of the catalog, categories in order, apps in order within each
CatalogApps(nattd_data) ==
    IF "additional_apps" \notin DOMAIN nattd_data THEN <<>>
    ELSE LET cats == nattd_data["additional_apps"]
         IN  Flatten([c \in 1..Len(cats) |->
                 [a \in 1..Len(cats[c].v.apps) |->
                     [category |-> cats[c].k, app_id |-> cats[c].v.apps[a].k,
                      app_data |-> cats[c].v.apps[a].v]]])

\* the apps of the Selection that require the repository option
DependentApps(opts, nattd_data) ==
    SelectSeq(CatalogApps(nattd_data),
              LAMBDA a : RequiresRpmfusion(ChoiceOf(opts, a.category, a.app_id),
                                           a.app_data))

\* The resolver that update_options imports.  src/scripts/builder.py does not
\* define it; this is the resolver the specification describes (4.2): the codec
\* rule, then the installation-type dependencies with one notification.
process_all_dependencies(opts, nattd_data) ==
    LET codec == check_dependencies(opts)
        dependents == DependentApps(opts, nattd_data)
        before == Get(SectionOrEmpty(opts, "system_config").items,
                      "enable_rpmfusion", FALSE)
    IN  IF codec.exc THEN [exc |-> TRUE, val |-> codec.val, notifications |-> <<>>]
        ELSE IF dependents = <<>>
        THEN [exc |-> FALSE, val |-> codec.val, notifications |-> <<>>]
        ELSE [exc |-> FALSE,
              val |-> [codec.val EXCEPT !["system_config"] =
                          DictVal(ForceEnable(codec.val["system_config"].items))],
              notifications |->
                  IF before THEN <<>>
                  ELSE << <<"enable_rpmfusion",
                            " has been automatically enabled because it's required for ">>
                          \o dependents[1].app_data.name
                          \o <<". This provides necessary packages and codecs.">> >>]

\* `from scripts.builder import process_all_dependencies` raises ImportError
\* when the module defines no such name; the except branch then stores the
\* options as given and clears the notifications
update_options(self, opts) ==
    LET imported == "process_all_dependencies" \in scripts_builder_names
        processed == process_all_dependencies(opts, nattd)
    IN  IF imported /\ ~processed.exc
        THEN [_update_state(self, processed.val) EXCEPT
                 !.dependency_notifications = processed.notifications]
        ELSE [_update_state(self, opts) EXCEPT !.dependency_notifications = <<>>]

set_full_script(self, script) ==
    [self EXCEPT !.full_script = StrVal(script), !.script_built = TRUE]

set_script_built(self, built) == [self EXCEPT !.script_built = built]

---------------------------------------------------------------------------
(* Sidebar: src/ui/sidebar.py render_sidebar *)

\* the texts in which pattern.search finds the query, for
\* re.compile(search_query, re.IGNORECASE) over the catalog's names and
\* descriptions
Mentioning(search_query) ==
    CASE search_query = "codec" ->
             {<<"Install Multimedia Codecs">>, <<"Install multimedia codecs">>}
      [] search_query = "vlc" -> {<<"VLC">>}
      [] OTHER -> {}

\* an empty query matches every item
matches_search(item_name, description, search_query) ==
    IF search_query = "" THEN TRUE
    ELSE item_name \in Mentioning(search_query)
         \/ description \in Mentioning(search_query)

\* the entries of a catalog section that the search shows
Shown(section, search_query) ==
    SelectSeq(section, LAMBDA e : matches_search(e.v.name, e.v.description,
                                                 search_query))

\* d[id] = value[id] for the ids in order
RECURSIVE Checkboxes(_, _, _)
Checkboxes(d, ids, value) ==
    IF ids = <<>> THEN d
    ELSE Checkboxes(Put(d, Head(ids), value[Head(ids)]), Tail(ids), value)

\* the keys of a dict in iteration order
KeyList(d) == [i \in 1..Len(d) |-> d[i].k]

\* {'selected': app_selected} and, for a selected typed app, the radio's
\* first installation type
AppCheckbox(app_info, app_selected) ==
    [selected |-> app_selected,
     has_installation_type |-> app_selected /\ app_info.has_installation_types,
     installation_type |-> IF app_selected /\ app_info.has_installation_types
                           THEN app_info.installation_types[1].k ELSE ""]

\* the checkbox value of a customization item; the fonts item becomes a dict
\* with the radio's first installation type when it is checked
CustomizationCheckbox(app_id, checked) ==
    IF app_id = "install_microsoft_fonts" /\ checked
    THEN [form |-> "dict", selected |-> TRUE, has_installation_type |-> TRUE,
          installation_type |-> "core"]
    ELSE [form |-> "bool", selected |-> checked, has_installation_type |-> FALSE,
          installation_type |-> ""]

\* the text area's default text (its heart sign written as a word)
default_custom_script == <<"echo", " ", "\"Created with love for Open Source\"">>

\* if option == "set_hostname" and options["system_config"][option]: the text
\* input's value goes to options["hostname"] and app_state.hostname; nothing
\* is done when the box is not checked
HostnameAfter(self, opts, widgets) ==
    IF /\ "set_hostname" \in widgets.checked
       /\ Has(Shown(nattd["system_config"], widgets.search_query), "set_hostname")
    THEN [state |-> [self EXCEPT !.hostname = StrVal(widgets.hostname)],
          options |-> ("hostname" :> StrVal(widgets.hostname)) @@ opts]
    ELSE [state |-> self, options |-> opts]

\* the options dict render_sidebar fills from the widgets, starting from
\* app_state.get_options()
SidebarOptions(opts, widgets) ==
    LET system_config ==
            Checkboxes(opts["system_config"].items,
                       KeyList(Shown(nattd["system_config"], widgets.search_query)),
                       [id \in Keys(nattd["system_config"]) |-> id \in widgets.checked])
        essential_apps ==
            Checkboxes(opts["essential_apps"].items,
                       SelectSeq([i \in 1..Len(nattd["essential_apps"]) |->
                                     nattd["essential_apps"][i].name],
                                 LAMBDA name : matches_search(<<name>>, <<>>,
                                                              widgets.search_query)),
                       [name \in {nattd["essential_apps"][i].name :
                                     i \in 1..Len(nattd["essential_apps"])} |->
                           widgets.apps])
        additional_apps ==
            Checkboxes(opts["additional_apps"].items, KeyList(nattd["additional_apps"]),
                       [category \in Keys(nattd["additional_apps"]) |->
                           LET apps == Shown(Get(nattd["additional_apps"], category,
                                                 <<>>).apps, widgets.search_query)
                           IN  [i \in 1..Len(apps) |->
                                   [k |-> apps[i].k,
                                    v |-> AppCheckbox(apps[i].v, widgets.apps)]]])
        customization ==
            Checkboxes(opts["customization"].items,
                       KeyList(Shown(nattd["customization"], widgets.search_query)),
                       [app_id \in Keys(nattd["customization"]) |->
                           CustomizationCheckbox(app_id, widgets.apps)])
    IN  ("system_config" :> DictVal(IF AnyCodecSelected(system_config)
                                    THEN ForceEnable(system_config)
                                    ELSE system_config)
         @@ "essential_apps" :> DictVal(essential_apps)
         @@ "additional_apps" :> DictVal(additional_apps)
         @@ "customization" :> DictVal(customization)
         @@ "custom_script" :> StrVal(default_custom_script))
        @@ opts

\* one run of render_sidebar on the session's state with the widgets' values
render_sidebar(self, widgets) ==
    LET after == HostnameAfter([self EXCEPT !.output_mode = widgets.output_mode],
                               get_options(self), widgets)
    IN  update_options(after.state, SidebarOptions(after.options, widgets))

---------------------------------------------------------------------------
(* Main panel: src/ui/main_panel.py *)

\* the text render_script_preview shows for the session's state
render_script_preview(self) ==
    LET r == build_script(get_options(self), self.output_mode)
    IN  IF r.exc THEN Returned(<<"# Error generating script preview">>, r.caller)
        ELSE r

\* the state after the 'Build Your Script' button, given what build_full_script
\* returned; an exception leaves the state as it is
Built(self, r) ==
    IF r.exc THEN self ELSE set_script_built(set_full_script(self, r.val), TRUE)

\* the 'Build Your Script' button pressed: the state after render_build_button
render_build_button(self, tmpl) ==
    Built(self, build_full_script(tmpl, get_options(self), self.output_mode))

\* the record of one assembler call
CallRecord(name, opts, mode, tmpl, text) ==
    [name |-> name, options |-> opts, output_mode |-> mode, template |-> tmpl,
     text |-> text]

---------------------------------------------------------------------------
(* Catalog store: src/utils/helpers.py load_nattd under st.cache_data *)

\* seconds a cached catalog is served
ttl == 3600

\* the minimal structure of the except branch; the model holds the list of
\* essential_apps.apps and the map of customization.apps directly
FallbackCatalog ==
    [system_config |-> <<>>, essential_apps |-> <<>>, additional_apps |-> <<>>,
     customization |-> <<>>]

\* without the except branch nothing replaces what the document holds
load_nattd_no_except(doc) == doc.data

\* the body of load_nattd over the document nattd.json: `parses` is false when
\* the file is missing or its text is no JSON, and open or json.load raises
load_nattd(doc) == IF doc.parses THEN doc.data ELSE FallbackCatalog

\* the entry was stored less than ttl seconds before t
Fresh(entry, t) == entry.filled /\ t - entry.stored_at < ttl

\* what the decorated load_nattd returns at time t
Served(entry, doc, t) == IF Fresh(entry, t) THEN entry.value ELSE load_nattd(doc)

\* the cache entry after that call
Stored(entry, doc, t) ==
    IF Fresh(entry, t) THEN entry
    ELSE [filled |-> TRUE, value |-> load_nattd(doc), stored_at |-> t]

---------------------------------------------------------------------------
(* Inputs: catalogs, Selections, templates *)

Modes == {"Quiet", "Verbose"}

Dnf(package) == <<"dnf", " ", "install", " ", "-y", " ", package>>

\* statements a catalog command may hold
StatementPool ==
    { Dnf("htop"),
      <<"echo", " ", "\"done\"">>,
      <<"printf", " ", "\"done\"">>,
      <<"read", " ", "-p", " ", "answer">>,
      <<"prompt_", "continue">>,
      <<"cat", " ", "<<", "EOF">>,
      <<"EOF">>,
      <<"color_echo", " ", "\"green\"", " ", "\"ok\"">>,
      <<"color_echo", " ", "\"purple\"", " ", "\"ok\"">>,
      <<"log_message", " ", "\"ok\"">>,
      <<"dnf", " ", "upgrade", " ", "-y">>,
      <<"dnf", " ", "update", " ", "-y">>,
      <<"systemctl", " ", "reboot">> }

EssentialCatalog ==
    <<[name |-> "git"], [name |-> "wget"], [name |-> "curl"], [name |-> "vim"],
      [name |-> "htop"], [name |-> "mc"]>>

\* a catalog whose probe options carry the statement `probe`
Catalog(probe) ==
    [system_config |->
        << [k |-> "enable_rpmfusion",
            v |-> Entry(<<"Enable RPM Fusion">>, <<"Enable RPM Fusion repositories">>,
                        << Dnf("rpmfusion-free-release") >>)],
           [k |-> "install_multimedia_codecs",
            v |-> Entry(<<"Install Multimedia Codecs">>, <<"Install multimedia codecs">>,
                        << <<"dnf", " ", "swap", " ", "-y", " ", "ffmpeg-free", " ", "ffmpeg">> >>)],
           [k |-> "set_hostname",
            v |-> Entry(<<"Set Hostname">>, <<"Set the system hostname">>,
                        << <<"hostnamectl", " ", "set-hostname", " ">> \o <<"{", "hostname", "}">> >>)],
           [k |-> "configure_dnf",
            v |-> Entry(<<"Configure DNF">>, <<"Configure DNF">>, << probe >>)] >>,
     essential_apps |-> SubSeq(EssentialCatalog, 1, MaxEssentialApps),
     additional_apps |->
        << [k |-> "media_graphics",
            v |-> [name |-> <<"Media & Graphics">>,
                   apps |->
                     << [k |-> "install_vlc",
                         v |-> TypedEntry(<<"VLC">>, <<"Media player">>,
                                 << InstallType("DNF", << Dnf("vlc") >>,
                                                <<"enable_rpmfusion">>),
                                    InstallType("Flatpak",
                                                << <<"flatpak", " ", "install", " ", "-y", " ", "vlc">> >>,
                                                <<>>) >>)],
                        [k |-> "install_docker",
                         v |-> Entry(<<"Docker">>, <<"Container runtime">>,
                                     << probe >>)] >>] ] >>,
     customization |->
        << [k |-> "install_tela_icon_theme",
            v |-> Entry(<<"Tela Icon Theme">>, <<"Install Tela icons">>, << probe >>)],
           [k |-> "install_microsoft_fonts",
            v |-> TypedEntry(<<"Windows Fonts">>, <<"Install Windows fonts">>,
                     << InstallType("core", << Dnf("mscore-fonts") >>, <<>>),
                        InstallType("windows", << <<"cp", " ", "-r", " ", "fonts">> >>,
                                    <<>>) >>)] >>]

\* sequences over S of length at most n
SeqsUpTo(S, n) == UNION {[1..m -> S] : m \in 0..n}

SysKeys == {"install_multimedia_codecs", "install_intel_codecs", "install_amd_codecs",
            "enable_rpmfusion", "configure_dnf"}

\* the system_config maps of a Selection: distinct keys, in any order
SysDicts ==
    {d \in SeqsUpTo([k : SysKeys, v : BOOLEAN], MaxSysEntries) :
        \A i, j \in 1..Len(d) : i # j => d[i].k # d[j].k}

Choice(selected, install_type) ==
    [selected |-> selected, has_installation_type |-> install_type # "",
     installation_type |-> install_type]

\* the additional_apps maps of a Selection over the catalog's one typed app
VlcChoices ==
    {Choice(FALSE, ""), Choice(TRUE, "DNF"), Choice(TRUE, "Flatpak")}

AdditionalApps(vlc, docker) ==
    DictVal(<< [k |-> "media_graphics",
                v |-> << [k |-> "install_vlc", v |-> vlc],
                         [k |-> "install_docker", v |-> Choice(docker, "")] >>] >>)

Flag(selected) ==
    [form |-> "bool", selected |-> selected, has_installation_type |-> FALSE,
     installation_type |-> ""]

Customization(tela) ==
    DictVal(<< [k |-> "install_tela_icon_theme", v |-> Flag(tela)],
               [k |-> "install_microsoft_fonts",
                v |-> [form |-> "dict", selected |-> TRUE,
                       has_installation_type |-> TRUE,
                       installation_type |-> "core"]] >>)

\* an options dict from the values of its keys; an absent key is left out
Absent == [t |-> "absent", items |-> <<>>]
Opts(vals) == [k \in {x \in DOMAIN vals : vals[x].t # "absent"} |-> vals[k]]

StandardTemplate ==
    <<"#!/bin/bash", "\n">>
    \o Slot("system_upgrade") \o <<"\n">> \o Slot("system_config") \o <<"\n">>
    \o Slot("app_install") \o <<"\n">> \o Slot("customization") \o <<"\n">>
    \o Slot("custom_script") \o <<"\n">>
    \o <<"echo", " ", "\"Setup of ">> \o HostnameToken \o <<" complete\"", "\n">>

\* a catalog entry whose command key is missing
NoCommand(entry) == [entry EXCEPT !.has_command = FALSE, !.command = <<>>]

\* an installation type whose command key is missing
NoTypeCommand(types, install_type) ==
    Put(types, install_type,
        [Get(types, install_type, <<>>) EXCEPT !.has_command = FALSE,
                                                !.command = <<>>])

\* the entries of a catalog that may be malformed, one at a time
BrokenKinds ==
    {"none", "configure_dnf", "install_docker", "install_vlc",
     "install_tela_icon_theme", "install_microsoft_fonts"}

\* the catalog with the entry `broken` malformed: a plain entry loses its
\* command, a typed entry loses the command of its first installation type
Break(catalog, broken) ==
    LET media == Get(catalog.additional_apps, "media_graphics", <<>>)
        inMedia(apps) ==
            [catalog EXCEPT !.additional_apps =
                Put(@, "media_graphics", [media EXCEPT !.apps = apps])]
    IN  CASE broken = "configure_dnf" ->
               [catalog EXCEPT !.system_config =
                   Put(@, "configure_dnf", NoCommand(Get(@, "configure_dnf", <<>>)))]
          [] broken = "install_docker" ->
               inMedia(Put(media.apps, "install_docker",
                           NoCommand(Get(media.apps, "install_docker", <<>>))))
          [] broken = "install_vlc" ->
               inMedia(Put(media.apps, "install_vlc",
                   [Get(media.apps, "install_vlc", <<>>) EXCEPT
                       !.installation_types = NoTypeCommand(@, "DNF")]))
          [] broken = "install_tela_icon_theme" ->
               [catalog EXCEPT !.customization =
                   Put(@, "install_tela_icon_theme",
                       NoCommand(Get(@, "install_tela_icon_theme", <<>>)))]
          [] broken = "install_microsoft_fonts" ->
               [catalog EXCEPT !.customization =
                   Put(@, "install_microsoft_fonts",
                       [Get(@, "install_microsoft_fonts", <<>>) EXCEPT
                           !.installation_types = NoTypeCommand(@, "core")])]
          [] OTHER -> catalog

\* the sections of a Selection that may hold an id the catalog does not have
StaleKinds ==
    {"none", "system_config", "codec", "essential_apps", "category", "app",
     "customization"}

\* a system_config map with configure_dnf set and, when asked for, a stale id
SystemConfigWith(configure, stale) ==
    DictVal(<< [k |-> "enable_rpmfusion", v |-> FALSE],
               [k |-> "install_multimedia_codecs", v |-> FALSE],
               [k |-> "set_hostname", v |-> FALSE],
               [k |-> "configure_dnf", v |-> configure] >>
            \o (IF stale = "system_config"
                THEN << [k |-> "enable_old_repo", v |-> TRUE] >>
                ELSE IF stale = "codec"
                THEN << [k |-> "install_intel_codecs", v |-> TRUE] >>
                ELSE <<>>))

EssentialWith(git, stale) ==
    DictVal(<< [k |-> "git", v |-> git], [k |-> "wget", v |-> FALSE] >>
            \o (IF stale = "essential_apps"
                THEN << [k |-> "oldtool", v |-> TRUE] >> ELSE <<>>))

AdditionalAppsWith(vlc, docker, stale) ==
    DictVal(<< [k |-> "media_graphics",
                v |-> << [k |-> "install_vlc", v |-> vlc],
                         [k |-> "install_docker", v |-> Choice(docker, "")] >>
                      \o (IF stale = "app"
                          THEN << [k |-> "install_oldapp", v |-> Choice(TRUE, "")] >>
                          ELSE <<>>)] >>
            \o (IF stale = "category"
                THEN << [k |-> "old_category",
                         v |-> << [k |-> "install_oldapp", v |-> Choice(TRUE, "")] >>] >>
                ELSE <<>>))

\* the sidebar's value for the typed customization item: False, or the chosen
\* installation type
Fonts(install_type) ==
    IF install_type = "" THEN Flag(FALSE)
    ELSE [form |-> "dict", selected |-> TRUE, has_installation_type |-> TRUE,
          installation_type |-> install_type]

CustomizationWith(tela, fonts, stale) ==
    DictVal(<< [k |-> "install_tela_icon_theme", v |-> Flag(tela)],
               [k |-> "install_microsoft_fonts", v |-> Fonts(fonts)] >>
            \o (IF stale = "customization"
                THEN << [k |-> "install_old_theme", v |-> Flag(TRUE)] >> ELSE <<>>))

---------------------------------------------------------------------------
(* Initial states *)

NoReturn == [exc |-> FALSE, val |-> <<>>]

\* no cache entry yet
NoEntry == [filled |-> FALSE, value |-> <<>>, stored_at |-> 0]

\* the catalog is given; the store and the other sessions play no part
StoreIdle ==
    /\ document = [parses |-> TRUE, data |-> nattd]
    /\ cache = NoEntry
    /\ now = 0
    /\ sessions = <<>>
    /\ calls = <<>>

\* resolution: Selections that vary in system_config and in the typed app
InitResolve ==
    /\ \E sc \in {DictVal(d) : d \in SysDicts} \cup {NoneVal, Absent},
          vlc \in VlcChoices,
          texts \in {[hostname |-> Absent, custom_script |-> Absent],
                     [hostname |-> StrVal(<<"myhost">>),
                      custom_script |-> StrVal(<<"echo", " ", "\"done\"">>)]} :
           options = Opts([system_config |-> sc,
                           essential_apps |-> DictVal(<<[k |-> "git", v |-> TRUE]>>),
                           additional_apps |-> AdditionalApps(vlc, FALSE),
                           customization |-> Customization(FALSE),
                           hostname |-> texts.hostname,
                           custom_script |-> texts.custom_script])
    /\ output_mode \in Modes
    /\ nattd = Catalog(Dnf("htop"))
    /\ template = StandardTemplate
    /\ app_state = NewAppState
    /\ op = "init"
    /\ ret = NoReturn
    /\ pre = options
    /\ StoreIdle

\* the essential_apps maps of a Selection: each catalog app absent, False or
\* True, the keys in the reverse of the catalog's order
EssentialChoices ==
    {Flatten([i \in 1..MaxEssentialApps |->
        LET app == EssentialCatalog[MaxEssentialApps + 1 - i]
        IN  IF f[MaxEssentialApps + 1 - i] = "absent" THEN <<>>
            ELSE << [k |-> app.name, v |-> f[MaxEssentialApps + 1 - i] = "true"] >>]) :
     f \in [1..MaxEssentialApps -> {"absent", "false", "true"}]}

\* rendering: every probe option enabled, the catalog statement and the
\* essential apps vary
InitRender ==
    /\ \E e \in {DictVal(d) : d \in EssentialChoices} \cup {Absent} :
           options = Opts([system_config |-> DictVal(<<[k |-> "configure_dnf", v |-> TRUE]>>),
                           essential_apps |-> e,
                           additional_apps |-> AdditionalApps(Choice(TRUE, "DNF"), TRUE),
                           customization |-> Customization(TRUE),
                           custom_script |-> StrVal(<<"systemctl", " ", "reboot", "\n">>)])
    /\ output_mode \in Modes
    /\ \E probe \in StatementPool : nattd = Catalog(probe)
    /\ template = StandardTemplate
    /\ app_state = NewAppState
    /\ op = "init"
    /\ ret = NoReturn
    /\ pre = options
    /\ StoreIdle

HostnamePool ==
    {Absent, NoneVal, StrVal(<<>>), StrVal(<<"myhost">>), StrVal(<<"hostname">>),
     StrVal(HostnameToken)}

CustomScriptPool ==
    {Absent, NoneVal, StrVal(<<"echo", " ">> \o HostnameToken \o <<"\n">>)}

\* assembly: the template's tail, the hostname and the custom script vary;
\* a system_config of None makes the resolver raise
InitAssemble ==
    /\ \E sc \in {DictVal(<<[k |-> "set_hostname", v |-> TRUE]>>), NoneVal},
          h \in HostnamePool, c \in CustomScriptPool :
           options = Opts([system_config |-> sc,
                           essential_apps |-> DictVal(<<>>),
                           additional_apps |-> DictVal(<<>>),
                           customization |-> DictVal(<<>>),
                           hostname |-> h, custom_script |-> c])
    /\ output_mode \in Modes
    /\ nattd = Catalog(Dnf("htop"))
    /\ \E tail \in SeqsUpTo({"{", "hostname", "}"}, MaxTemplateTail) :
           template = StandardTemplate \o tail
    /\ app_state = NewAppState
    /\ op = "init"
    /\ ret = NoReturn
    /\ pre = options
    /\ StoreIdle

\* catalog handling: one entry of the catalog may be malformed, one section of
\* the Selection may hold a stale id, every option is on or off, and an
\* installation type the catalog does not have may be chosen
InitCatalog ==
    /\ \E broken \in BrokenKinds : nattd = Break(Catalog(Dnf("htop")), broken)
    /\ \E stale \in StaleKinds, on \in BOOLEAN,
          vlc \in VlcChoices \cup {Choice(TRUE, "Snap")},
          fonts \in {"", "core", "extra"} :
           options = Opts([system_config |-> SystemConfigWith(on, stale),
                           essential_apps |-> EssentialWith(on, stale),
                           additional_apps |-> AdditionalAppsWith(vlc, on, stale),
                           customization |-> CustomizationWith(on, fonts, stale),
                           custom_script |-> StrVal(<<>>)])
    /\ output_mode \in Modes
    /\ template = StandardTemplate
    /\ app_state = NewAppState
    /\ op = "init"
    /\ ret = NoReturn
    /\ pre = options
    /\ StoreIdle

\* the documents nattd.json may be: the catalog or an edited one, readable or
\* not (missing, or with a syntax error)
Documents ==
    [parses : BOOLEAN,
     data : {Catalog(Dnf("htop")), Catalog(<<"echo", " ", "\"done\"">>)}]

\* a Selection with every option of the catalog on, or every option off
Everything(on) ==
    Opts([system_config |-> SystemConfigWith(on, "none"),
          essential_apps |-> EssentialWith(on, "none"),
          additional_apps |->
              AdditionalAppsWith(Choice(on, IF on THEN "DNF" ELSE ""), on, "none"),
          customization |-> CustomizationWith(on, IF on THEN "core" ELSE "", "none"),
          custom_script |-> StrVal(<<>>)])

\* the catalog store: the session has made its first load_nattd call (sidebar.py)
\* on some document
InitStore ==
    /\ document \in Documents
    /\ nattd = load_nattd(document)
    /\ cache = [filled |-> TRUE, value |-> nattd, stored_at |-> 0]
    /\ now = 0
    /\ sessions = <<>>
    /\ calls = <<>>
    /\ \E on \in BOOLEAN : options = Everything(on)
    /\ output_mode \in Modes
    /\ template = StandardTemplate
    /\ app_state = NewAppState
    /\ op = "load_nattd"
    /\ ret = NoReturn
    /\ pre = options

\* the ids of SysKeys in one order
SysKeyOrder ==
    <<"enable_rpmfusion", "install_multimedia_codecs", "install_intel_codecs",
      "install_amd_codecs", "configure_dnf">>

\* the system_config map d with the options `more` enabled as well
Enabling(d, more) ==
    [i \in 1..Len(d) |-> IF d[i].k \in more THEN [k |-> d[i].k, v |-> TRUE] ELSE d[i]]
    \o LET added == SelectSeq(SysKeyOrder, LAMBDA k : k \in more /\ ~Has(d, k))
       IN  [i \in 1..Len(added) |-> [k |-> added[i], v |-> TRUE]]

\* a session that has called nothing yet
NewSession(opts, mode) ==
    [options |-> opts, output_mode |-> mode, op |-> "init", ret |-> NoReturn,
     parts |-> <<>>]

\* a Selection with the given system_config map and one app of each section
SelectionOf(system_config, vlc) ==
    Opts([system_config |-> system_config,
          essential_apps |-> DictVal(<<[k |-> "git", v |-> TRUE]>>),
          additional_apps |-> AdditionalApps(vlc, FALSE),
          customization |-> Customization(FALSE)])

\* pairs of Selections: the second has every option of the first enabled, and
\* the options `more`
InitPairs ==
    /\ \E sc \in {DictVal(d) : d \in SysDicts} \cup {Absent},
          more \in SUBSET SysKeys :
           sessions = << NewSession(SelectionOf(sc, Choice(FALSE, "")), "Quiet"),
                         NewSession(SelectionOf(DictVal(Enabling(sc.items, more)),
                                                Choice(TRUE, "DNF")), "Quiet") >>
    /\ options = sessions[1].options
    /\ output_mode = "Quiet"
    /\ nattd = Catalog(Dnf("htop"))
    /\ template = StandardTemplate
    /\ app_state = NewAppState
    /\ op = "init"
    /\ ret = NoReturn
    /\ pre = options
    /\ document = [parses |-> TRUE, data |-> nattd]
    /\ cache = NoEntry
    /\ now = 0
    /\ calls = <<>>

\* a Selection with set_hostname enabled and the hostname h
HostSelection(h) ==
    Opts([system_config |-> DictVal(<< [k |-> "set_hostname", v |-> TRUE],
                                       [k |-> "configure_dnf", v |-> TRUE] >>),
          essential_apps |-> DictVal(<<[k |-> "git", v |-> TRUE]>>),
          additional_apps |-> AdditionalApps(Choice(TRUE, "Flatpak"), TRUE),
          customization |-> Customization(TRUE),
          hostname |-> StrVal(h),
          custom_script |-> StrVal(<<"echo", " ">> \o h)])

SessionSelections ==
    {HostSelection(<<"myhost">>), HostSelection(<<"hostname">>), Everything(TRUE),
     Everything(FALSE)}

\* two sessions of the multi-session host share the catalog
InitSessions ==
    /\ \E s1, s2 \in SessionSelections, m1, m2 \in Modes :
           sessions = << NewSession(s1, m1), NewSession(s2, m2) >>
    /\ options = sessions[1].options
    /\ output_mode = sessions[1].output_mode
    /\ nattd = Catalog(Dnf("htop"))
    /\ template = StandardTemplate
    /\ app_state = NewAppState
    /\ op = "init"
    /\ ret = NoReturn
    /\ pre = options
    /\ document = [parses |-> TRUE, data |-> nattd]
    /\ cache = NoEntry
    /\ now = 0
    /\ calls = <<>>

\* the texts typed into the hostname input
HostnameTexts == {<<>>, <<"myhost">>}

\* the values of the sidebar's widgets in one run of the page; the box of
\* configure_dnf stays unchecked
Widgets ==
    [checked : SUBSET {"enable_rpmfusion", "install_multimedia_codecs", "set_hostname"},
     hostname : HostnameTexts, apps : BOOLEAN, output_mode : Modes,
     search_query : {""}]

\* a new session of the page: AppState.get_instance() makes the state
InitSidebar ==
    /\ nattd = Catalog(Dnf("htop"))
    /\ app_state = NewAppState
    /\ options = get_options(app_state)
    /\ output_mode = app_state.output_mode
    /\ template = StandardTemplate
    /\ op = "init"
    /\ ret = NoReturn
    /\ pre = options
    /\ StoreIdle

\* the widget values of the page with the main panel: the set_hostname box
\* and the output mode vary
PanelWidgets ==
    [checked : SUBSET {"set_hostname"}, hostname : {<<"myhost">>}, apps : {FALSE},
     output_mode : Modes, search_query : {""}]

\* the widget values of the page with its search bar used
SearchWidgets ==
    [checked : SUBSET {"install_multimedia_codecs"}, hostname : {<<"myhost">>},
     apps : BOOLEAN, output_mode : {"Verbose"}, search_query : {"", "codec", "vlc"}]

\* a new session of the page with the main panel
InitPanel ==
    /\ nattd = Catalog(Dnf("htop"))
    /\ app_state = NewAppState
    /\ options = get_options(app_state)
    /\ output_mode = app_state.output_mode
    /\ template = StandardTemplate
    /\ op = "init"
    /\ ret = NoReturn
    /\ pre = options
    /\ StoreIdle

---------------------------------------------------------------------------
(* Operations *)

\* the caller calls `name` on its Selection object and keeps what it returns;
\* the catalog is the one given, or the one load_nattd has just returned
Call(name, r) ==
    /\ op \in {"init", "load_nattd", "load_nattd_cached"}
    /\ op' = name
    /\ ret' = [exc |-> r.exc, val |-> r.val]
    /\ options' = r.caller
    /\ pre' = options
    /\ UNCHANGED <<nattd, output_mode, template, app_state, env>>

CallCheckDependencies == Call("check_dependencies", check_dependencies(options))

\* check_dependencies on the Selection the first pass returned
ReResolve ==
    /\ op = "check_dependencies" /\ ~ret.exc
    /\ LET r == check_dependencies(ret.val)
       IN  /\ ret' = [exc |-> r.exc, val |-> r.val]
           /\ options' = r.caller
    /\ op' = "re_resolve"
    /\ pre' = ret.val
    /\ UNCHANGED <<nattd, output_mode, template, app_state, env>>

CallBuildSystemUpgrade ==
    Call("build_system_upgrade", build_system_upgrade(options, output_mode))

CallBuildSystemConfig ==
    Call("build_system_config", build_system_config(options, output_mode))

CallBuildAppInstall ==
    Call("build_app_install", build_app_install(options, output_mode))

CallBuildCustomization ==
    Call("build_customization", build_customization(options, output_mode))

CallBuildCustomScript ==
    Call("build_custom_script", build_custom_script(options, output_mode))

CallBuildScript == Call("build_script", build_script(options, output_mode))

CallBuildFullScript ==
    Call("build_full_script", build_full_script(template, options, output_mode))

CallLegacyCheckDependencies ==
    Call("legacy_check_dependencies", legacy_check_dependencies(options))

CallLegacyBuildSystemUpgrade ==
    Call("legacy_build_system_upgrade",
         legacy_build_system_upgrade(options, output_mode))

CallLegacyBuildSystemConfig ==
    Call("legacy_build_system_config",
         legacy_build_system_config(options, output_mode))

CallLegacyBuildAppInstall ==
    Call("legacy_build_app_install", legacy_build_app_install(options, output_mode))

\* render_sidebar hands the Selection it collected to AppState.update_options
UpdateOptions ==
    /\ op = "init"
    /\ app_state' = update_options(app_state, options)
    /\ op' = "update_options"
    /\ pre' = options
    /\ UNCHANGED <<nattd, options, output_mode, template, ret, env>>

\* the next run of the page: the stored Selection is resolved again
ReUpdateOptions ==
    /\ op = "update_options"
    /\ app_state' = update_options(app_state, get_options(app_state))
    /\ op' = "re_update_options"
    /\ pre' = get_options(app_state)
    /\ options' = get_options(app_state)
    /\ UNCHANGED <<nattd, output_mode, template, ret, env>>

\* the clock advances in steps of two thirds of the ttl: an entry is fresh one
\* step after it was stored and expired two steps after
Tick ==
    /\ now < MaxTicks * ((2 * ttl) \div 3)
    /\ now' = now + (2 * ttl) \div 3
    /\ op' = "idle"
    /\ UNCHANGED <<nattd, options, output_mode, template, app_state, ret, pre,
                   document, cache, sessions, calls>>

\* nattd.json is written, removed or repaired outside the program; what the
\* session held is out of date
WriteDocument ==
    /\ \E doc \in Documents \ {document} : document' = doc
    /\ op' = "idle"
    /\ UNCHANGED <<nattd, options, output_mode, template, app_state, ret, pre,
                   cache, now, sessions, calls>>

\* a load_nattd call of the UI (sidebar.py, state.py) or the first statement of
\* a renderer; op tells whether the document was read or the cached catalog
\* served
LoadNattd ==
    /\ nattd' = Served(cache, document, now)
    /\ cache' = Stored(cache, document, now)
    /\ op' = IF Fresh(cache, now) THEN "load_nattd_cached" ELSE "load_nattd"
    /\ ret' = NoReturn
    /\ pre' = options
    /\ UNCHANGED <<options, output_mode, template, app_state, document, now, sessions, calls>>

\* session i calls check_dependencies on its Selection
SessionCheckDependencies(i) ==
    /\ sessions[i].op = "init"
    /\ LET r == check_dependencies(sessions[i].options)
       IN  sessions' = [sessions EXCEPT ![i] =
               [@ EXCEPT !.op = "check_dependencies",
                         !.ret = [exc |-> r.exc, val |-> r.val],
                         !.options = r.caller]]
    /\ UNCHANGED <<nattd, options, output_mode, template, app_state, op, ret, pre,
                   document, cache, now, calls>>

CheckDependenciesOfPair == \E i \in 1..Len(sessions) : SessionCheckDependencies(i)

\* session i calls its next renderer on the shared catalog, as the dict
\* display of build_script does
SessionRender(i) ==
    /\ Len(sessions[i].parts) < Len(RendererNames)
    /\ LET name == RendererNames[Len(sessions[i].parts) + 1]
           r == RenderOf(name, sessions[i].options, sessions[i].output_mode)
       IN  /\ ~r.exc
           /\ sessions' = [sessions EXCEPT ![i] =
                   [@ EXCEPT !.op = name,
                             !.ret = [exc |-> r.exc, val |-> r.val],
                             !.options = r.caller,
                             !.parts = Append(@, r.val)]]
           /\ nattd' = CatalogAfter(name, nattd, sessions[i].options,
                                    sessions[i].output_mode)
    /\ UNCHANGED <<options, output_mode, template, app_state, op, ret, pre,
                   document, cache, now, calls>>

RenderOfSession == \E i \in 1..Len(sessions) : SessionRender(i)

\* a run of the page: the sidebar reads the widgets and updates the state, and
\* the main panel takes the Selection from app_state.get_options()
RunSidebar(inputs) ==
    /\ \E widgets \in inputs :
           app_state' = render_sidebar(app_state, widgets)
    /\ ret' = NoReturn
    /\ options' = get_options(app_state')
    /\ output_mode' = app_state'.output_mode
    /\ op' = "render_sidebar"
    /\ pre' = options
    /\ UNCHANGED <<nattd, template, env>>

RenderSidebar == RunSidebar(Widgets)

\* a run of the page that has the main panel
RenderPanelSidebar == RunSidebar(PanelWidgets)

\* a run of the page with a search query typed
RenderSearchSidebar == RunSidebar(SearchWidgets)

\* render_script_preview: build_script on the session's Selection and mode;
\* a run of the page renders the sidebar before the main panel
RenderScriptPreview ==
    /\ op # "init"
    /\ Len(calls) < MaxCalls
    /\ LET r == render_script_preview(app_state)
       IN  /\ ret' = [exc |-> r.exc, val |-> r.val]
           /\ calls' = Append(calls, CallRecord("build_script", options, output_mode,
                                                template, r.val))
    /\ nattd' = CatalogAfter("build_system_config", nattd, options, output_mode)
    /\ op' = "build_script"
    /\ pre' = options
    /\ UNCHANGED <<options, output_mode, template, app_state, document, cache, now,
                   sessions>>

\* render_build_button with the button pressed: build_full_script on the
\* session's Selection and mode, kept in the state
RenderBuildButton ==
    /\ op # "init"
    /\ Len(calls) < MaxCalls
    /\ LET r == build_full_script(template, get_options(app_state),
                                  app_state.output_mode)
       IN  /\ ret' = [exc |-> r.exc, val |-> r.val]
           /\ app_state' = Built(app_state, r)
           /\ calls' = Append(calls, CallRecord("build_full_script", options,
                                                output_mode, template, r.val))
    /\ nattd' = CatalogAfter("build_system_config", nattd, options, output_mode)
    /\ op' = "build_full_script"
    /\ pre' = options
    /\ UNCHANGED <<options, output_mode, template, document, cache, now, sessions>>

---------------------------------------------------------------------------
(* Specifications *)

Next ==
    \/ CallCheckDependencies
    \/ ReResolve
    \/ CallBuildSystemConfig
    \/ CallBuildScript
    \/ CallBuildFullScript
    \/ CallLegacyCheckDependencies
    \/ CallLegacyBuildSystemConfig
    \/ UpdateOptions
    \/ ReUpdateOptions

\* dependency resolution and the session state
Spec == InitResolve /\ [][Next]_vars

NextRender ==
    \/ CallBuildSystemUpgrade
    \/ CallBuildSystemConfig
    \/ CallBuildAppInstall
    \/ CallBuildCustomization
    \/ CallBuildCustomScript
    \/ CallLegacyBuildSystemUpgrade
    \/ CallLegacyBuildSystemConfig
    \/ CallLegacyBuildAppInstall

\* the section renderers over catalog statements
SpecRender == InitRender /\ [][NextRender]_vars

NextAssemble ==
    \/ CallBuildScript
    \/ CallBuildFullScript

\* the assembler over templates, hostnames and custom scripts
SpecAssemble == InitAssemble /\ [][NextAssemble]_vars

NextCatalog ==
    \/ CallBuildSystemUpgrade
    \/ CallBuildSystemConfig
    \/ CallBuildAppInstall
    \/ CallBuildCustomization
    \/ CallBuildCustomScript
    \/ CallBuildScript
    \/ CallBuildFullScript

\* the renderers and the assembler over malformed catalogs and stale Selections
SpecCatalog == InitCatalog /\ [][NextCatalog]_vars

NextStore ==
    \/ Tick
    \/ WriteDocument
    \/ LoadNattd
    \/ CallBuildSystemUpgrade
    \/ CallBuildSystemConfig
    \/ CallBuildAppInstall
    \/ CallBuildCustomization
    \/ CallBuildCustomScript
    \/ CallBuildScript

\* the catalog store under a changing document and a running clock
SpecStore == InitStore /\ [][NextStore]_vars

NextPairs == CheckDependenciesOfPair

\* resolution of two Selections of which one enables more than the other
SpecPairs == InitPairs /\ [][NextPairs]_vars

NextSessions == RenderOfSession

\* two sessions render on the shared catalog, interleaved
SpecSessions == InitSessions /\ [][NextSessions]_vars

NextSidebar == RenderSidebar

\* the runs of the page of one session
SpecSidebar == InitSidebar /\ [][NextSidebar]_vars

NextSearch == RenderSearchSidebar

\* the runs of the page with its search bar
SpecSearch == InitSidebar /\ [][NextSearch]_vars

NextPanel ==
    \/ RenderPanelSidebar
    \/ RenderScriptPreview
    \/ RenderBuildButton

\* the runs of the page with its main panel
SpecPanel == InitPanel /\ [][NextPanel]_vars

---------------------------------------------------------------------------
(* Properties: dependency resolution (checked under Spec) *)

\* the system_config map of a Selection, empty when absent or None
SysItems(opts) == SectionOrEmpty(opts, "system_config").items

\* the key/value pairs of a map, its order set aside
Pairs(d) == {<<d[i].k, d[i].v>> : i \in 1..Len(d)}

\* at least one codec option is enabled in the Selection's system_config
CodecEnabled(opts) ==
    \E k \in {"install_multimedia_codecs", "install_intel_codecs",
              "install_amd_codecs"} : <<k, TRUE>> \in Pairs(SysItems(opts))

RpmfusionEnabled(opts) == <<"enable_rpmfusion", TRUE>> \in Pairs(SysItems(opts))

\* C1: whenever a codec option is enabled in the Selection handed to
\* check_dependencies (refactored or legacy), the call returns a Selection
\* whose system_config.enable_rpmfusion is true, whether the flag was absent,
\* false or true before.
C1_CodecForcesRpmfusion ==
    (op \in {"check_dependencies", "legacy_check_dependencies"} /\ CodecEnabled(pre))
        => (~ret.exc /\ RpmfusionEnabled(ret.val)
            /\ <<"enable_rpmfusion", FALSE>> \notin Pairs(SysItems(ret.val)))

\* C1 witness: a codec was enabled with enable_rpmfusion explicitly false, and
\* the returned Selection has it true
C1_Witness ==
    /\ op = "check_dependencies" /\ CodecEnabled(pre)
    /\ <<"enable_rpmfusion", FALSE>> \in Pairs(SysItems(pre))
    /\ RpmfusionEnabled(ret.val)

\* a notification that names the dependency and the app
Names(notification, app_name) ==
    Contains(notification, <<"enable_rpmfusion">>) /\ Contains(notification, app_name)

\* C2: when update_options stores a Selection in which an additional app is
\* selected with an installation type whose dependencies list enable_rpmfusion,
\* the stored system_config has enable_rpmfusion true and, if it was not
\* enabled before the pass, a notification names the dependency and the app.
C2_InstallTypeDependencyEnablesRpmfusion ==
    (op = "update_options" /\ DependentApps(pre, nattd) # <<>>
     /\ SectionOrEmpty(pre, "system_config").t = "dict")
        => /\ <<"enable_rpmfusion", TRUE>> \in Pairs(app_state.system_config.items)
           /\ ~RpmfusionEnabled(pre)
                 => \E i \in 1..Len(app_state.dependency_notifications) :
                        Names(app_state.dependency_notifications[i],
                              DependentApps(pre, nattd)[1].app_data.name)

\* C3: check_dependencies, build_system_config, build_script and
\* build_full_script of the refactored builder leave the caller's Selection
\* equal to what it was before the call, also on a second resolution pass and
\* when the codec rule force-enables enable_rpmfusion.
C3_SelectionNotMutated ==
    op \in {"check_dependencies", "re_resolve", "build_system_config",
            "build_script", "build_full_script"}
        => options = pre

\* C3 witness: build_system_config rendered the repository block because of
\* the codec rule, and the caller's Selection still has no enable_rpmfusion
C3_Witness ==
    /\ op = "build_system_config" /\ CodecEnabled(pre) /\ ~RpmfusionEnabled(pre)
    /\ Contains(ret.val, <<"rpmfusion-free-release">>)
    /\ ~RpmfusionEnabled(options)

\* C4: after the legacy check_dependencies or build_system_config returns, the
\* caller's system_config has the same keys and values as before the call.
C4_LegacySelectionNotMutated ==
    (op \in {"legacy_check_dependencies", "legacy_build_system_config"} /\ ~ret.exc)
        => Pairs(SysItems(options)) = Pairs(SysItems(pre))

\* C5: resolving an already-resolved Selection returns it unchanged, in every
\* section and key and in the same order, and a second update_options pass
\* stores the same Selection with an empty notification list.
C5_ResolutionIdempotent ==
    /\ op = "re_resolve" => (~ret.exc /\ ret.val = pre)
    /\ op = "re_update_options"
          => /\ app_state.dependency_notifications = <<>>
             /\ get_options(app_state) = pre

\* C5 witness: the second pass ran on a Selection in which the codec rule is
\* active and enable_rpmfusion, appended by the first pass, is the last key
C5_Witness ==
    /\ op = "re_resolve" /\ CodecEnabled(pre)
    /\ SysItems(pre)[Len(SysItems(pre))] = [k |-> "enable_rpmfusion", v |-> TRUE]
    /\ ret.val = pre

\* the description comment that opens the block of a catalog entry
BlockHead(entry) == <<"# ">> \o entry.description \o <<"\n">>

\* C16: in the text of build_system_config the blocks of the enabled options
\* stand in the catalog's iteration order, whatever the order of the keys of
\* the Selection.
C16_BlocksInCatalogOrder ==
    (op = "build_system_config" /\ ~ret.exc)
        => \A i, j \in 1..Len(nattd["system_config"]) :
               (/\ i < j
                /\ Contains(ret.val, BlockHead(nattd["system_config"][i].v))
                /\ Contains(ret.val, BlockHead(nattd["system_config"][j].v)))
                   => Find(ret.val, BlockHead(nattd["system_config"][i].v))
                          < Find(ret.val, BlockHead(nattd["system_config"][j].v))

\* the entries of a system_config map other than enable_rpmfusion, in order
OtherEntries(system_config) ==
    SelectSeq(system_config, LAMBDA e : e.k # "enable_rpmfusion")

\* C25: check_dependencies changes nothing but system_config.enable_rpmfusion:
\* every other system_config entry and every other section or value of the
\* result equals that of the input, no enabled option becomes disabled, and
\* when no codec option is enabled the result equals the input, apart from an
\* empty system_config map added when the key was missing.
C25_OnlyRpmfusionChanges ==
    (op = "check_dependencies" /\ ~ret.exc)
        => /\ DOMAIN ret.val = DOMAIN pre \cup {"system_config"}
           /\ \A k \in DOMAIN pre \ {"system_config"} : ret.val[k] = pre[k]
           /\ ret.val["system_config"].t = "dict"
           /\ OtherEntries(SysItems(ret.val)) = OtherEntries(SysItems(pre))
           /\ \A i \in 1..Len(SysItems(pre)) :
                  SysItems(pre)[i].v
                      => <<SysItems(pre)[i].k, TRUE>> \in Pairs(SysItems(ret.val))
           /\ ~CodecEnabled(pre) => SysItems(ret.val) = SysItems(pre)

\* C25 witness: a codec and configure_dnf were enabled without
\* enable_rpmfusion; the result has both as they were and enable_rpmfusion true
C25_Witness ==
    /\ op = "check_dependencies" /\ ~ret.exc
    /\ CodecEnabled(pre) /\ ~Has(SysItems(pre), "enable_rpmfusion")
    /\ <<"configure_dnf", TRUE>> \in Pairs(SysItems(pre))
    /\ <<"configure_dnf", TRUE>> \in Pairs(SysItems(ret.val))
    /\ RpmfusionEnabled(ret.val)
    /\ ret.val["additional_apps"] = pre["additional_apps"]
    /\ "hostname" \in DOMAIN pre /\ ret.val["hostname"] = pre["hostname"]
    /\ "custom_script" \in DOMAIN pre /\ ret.val["custom_script"] = pre["custom_script"]

\* the catalog's codec options that the Selection enables
EnabledCodecs(opts) ==
    {k \in {"install_multimedia_codecs", "install_intel_codecs", "install_amd_codecs"} :
        <<k, TRUE>> \in Pairs(SysItems(opts)) /\ Has(nattd["system_config"], k)}

\* where the first statement of a catalog option stands in the text
StatementAt(text, option) ==
    Find(text, Get(nattd["system_config"], option, <<>>).command[1])

\* C24: whenever a codec option is enabled, the statements of enable_rpmfusion
\* stand in the text of build_system_config before the statements of every
\* enabled codec option, also when enable_rpmfusion was not in the Selection
\* and check_dependencies enabled it.
C24_RpmfusionBeforeCodecs ==
    (op = "build_system_config" /\ ~ret.exc)
        => \A codec \in EnabledCodecs(pre) :
               /\ Contains(ret.val, Get(nattd["system_config"], "enable_rpmfusion",
                                        <<>>).command[1])
               /\ Contains(ret.val, Get(nattd["system_config"], codec, <<>>).command[1])
               /\ StatementAt(ret.val, "enable_rpmfusion") < StatementAt(ret.val, codec)

---------------------------------------------------------------------------
(* Properties: the section renderers (checked under SpecRender) *)

\* the statement the catalog's probe options carry
Probe == Get(nattd["system_config"], "configure_dnf", <<>>).command[1]

\* the lines of the text the last call returned
Rendered == Lines(ret.val)

Emitted(line) == \E i \in 1..Len(Rendered) : Rendered[i] = line

Silenced(statement) == statement \o <<QuietSuffix>>

\* a user-facing statement: a status/log helper call, echo, printf, read, a
\* prompt_ call, or a heredoc boundary
UserFacing(statement) ==
    \/ statement[1] \in {"color_echo", "log_message", "echo", "printf", "read",
                         "prompt_"}
    \/ \E i \in 1..Len(statement) : statement[i] = "EOF"

\* a system upgrade or reboot command
UpgradeOrReboot(statement) ==
    \/ \E i \in 1..(Len(statement) - 2) :
           statement[i] = "dnf" /\ statement[i + 2] \in {"upgrade", "update"}
    \/ \E i \in 1..Len(statement) : statement[i] = "reboot"

\* C6: the system-configuration, application-install and customization
\* renderers emit an exempt catalog statement (status/log helper, echo, printf,
\* read, prompt_, heredoc boundary) exactly as the catalog has it, in Quiet and
\* in Verbose mode, and in Quiet mode emit every other statement (upgrade and
\* reboot commands aside) followed by " > /dev/null 2>&1".
C6_QuietRedirectsExceptExempt ==
    op \in {"build_system_config", "build_app_install", "build_customization"}
        => IF UserFacing(Probe)
           THEN Emitted(Probe) /\ ~Emitted(Silenced(Probe))
           ELSE (output_mode = "Quiet" /\ ~UpgradeOrReboot(Probe))
                    => Emitted(Silenced(Probe))

\* C7: in Quiet mode no line of a rendered section that holds a system upgrade
\* or reboot command ('dnf upgrade', 'dnf update', 'reboot') carries the
\* redirection " > /dev/null 2>&1"; this covers the 'dnf upgrade -y' of
\* build_system_upgrade and the catalog statements of the other renderers.
C7_UpgradeNeverSilenced ==
    (output_mode = "Quiet"
     /\ op \in {"build_system_upgrade", "build_system_config", "build_app_install",
                "build_customization"})
        => \A i \in 1..Len(Rendered) :
               UpgradeOrReboot(Rendered[i]) => Rendered[i][Len(Rendered[i])] # QuietSuffix

\* the essential app is enabled in the Selection the call was given
Enabled(name) ==
    /\ "essential_apps" \in DOMAIN pre
    /\ <<name, TRUE>> \in Pairs(pre["essential_apps"].items)

\* the names of the enabled essential apps from the i-th catalog entry on,
\* separated by blanks
RECURSIVE EnabledNamesFrom(_, _)
EnabledNamesFrom(i, first) ==
    IF i > Len(nattd["essential_apps"]) THEN <<>>
    ELSE LET name == nattd["essential_apps"][i].name
         IN  IF Enabled(name)
             THEN (IF first THEN <<name>> ELSE <<" ", name>>)
                  \o EnabledNamesFrom(i + 1, FALSE)
             ELSE EnabledNamesFrom(i + 1, first)

\* the rendered lines that are package installs naming an essential app
EssentialStatements ==
    {i \in 1..Len(Rendered) :
        /\ StartsWith(Rendered[i], <<"dnf", " ", "install", " ", "-y", " ">>)
        /\ \E j \in 1..Len(Rendered[i]), a \in 1..Len(nattd["essential_apps"]) :
               Rendered[i][j] = nattd["essential_apps"][a].name}

\* C8: when build_app_install (refactored, or legacy when it returns) is given
\* a Selection with at least one essential app enabled, its text has exactly
\* one 'dnf install -y' statement naming essential apps, and that statement
\* lists the enabled apps' names, blank-separated, in catalog order and nothing
\* else (but the Quiet redirection); with none enabled it has no such statement.
C8_EssentialAppsBatched ==
    (op \in {"build_app_install", "legacy_build_app_install"} /\ ~ret.exc)
        => IF \E a \in 1..Len(nattd["essential_apps"]) :
                  Enabled(nattd["essential_apps"][a].name)
           THEN /\ Cardinality(EssentialStatements) = 1
                /\ \A i \in EssentialStatements :
                       Rendered[i] = <<"dnf", " ", "install", " ", "-y", " ">>
                                     \o EnabledNamesFrom(1, TRUE)
                                     \o (IF output_mode = "Quiet"
                                         THEN <<QuietSuffix>> ELSE <<>>)
           ELSE EssentialStatements = {}

\* C8 witness: the Selection lists curl, wget (disabled) and git in that
\* order, and the one statement reads 'dnf install -y git curl'
C8_Witness ==
    /\ op = "build_app_install" /\ output_mode = "Verbose"
    /\ "essential_apps" \in DOMAIN pre
    /\ pre["essential_apps"].items =
           <<[k |-> "curl", v |-> TRUE], [k |-> "wget", v |-> FALSE],
             [k |-> "git", v |-> TRUE]>>
    /\ Emitted(<<"dnf", " ", "install", " ", "-y", " ", "git", " ", "curl">>)

---------------------------------------------------------------------------
(* Properties: the assembler (checked under SpecAssemble) *)

\* the first atoms of the fallback script of build_full_script
FallbackPrefix ==
    <<"#!/bin/bash", "\n", "\n", "echo", " ", "\"Error building script: ">>

\* the value build_full_script puts in place of the hostname token
Substituted(opts) ==
    IF "hostname" \in DOMAIN opts THEN opts["hostname"].items
    ELSE <<"fedora-workstation">>

\* the hostname key is absent, or holds a string with no brace that is no
\* (possibly empty) part of the word 'hostname'
PlainHostname(opts) ==
    "hostname" \in DOMAIN opts
        => /\ opts["hostname"].t = "str"
           /\ \A i \in 1..Len(opts["hostname"].items) :
                  opts["hostname"].items[i] \notin {"{", "}"}
           /\ opts["hostname"].items \notin {<<>>, <<"hostname">>}

\* C9 as stated: for every template and Selection the text build_full_script
\* returns has no occurrence of the raw token {hostname}.
C9_NoRawHostnameToken ==
    op = "build_full_script" => ~Contains(ret.val, HostnameToken)

\* C9 amended: when the value put in place of the token (the Selection's
\* hostname, or 'fedora-workstation' when the key is absent) has no brace and
\* is no part of the word 'hostname', the text build_full_script returns has
\* no occurrence of {hostname}, and, unless it is the fallback script, has the
\* value where the template and the set_hostname command had the token.
C9_NoRawHostnameTokenForPlainHostname ==
    (op = "build_full_script" /\ PlainHostname(pre))
        => /\ ~Contains(ret.val, HostnameToken)
           /\ ~StartsWith(ret.val, FallbackPrefix)
                 => /\ Contains(ret.val, <<"\"Setup of ">> \o Substituted(pre)
                                         \o <<" complete\"">>)
                    /\ Contains(ret.val, <<"hostnamectl", " ", "set-hostname", " ">>
                                         \o Substituted(pre))

\* C9 witness: hostname 'myhost' with set_hostname enabled and a custom script
\* and a template tail that both hold the token; the script names myhost in
\* the command, the custom script and the template's closing line
C9_Witness ==
    /\ op = "build_full_script" /\ "hostname" \in DOMAIN pre
    /\ pre["hostname"] = StrVal(<<"myhost">>)
    /\ "custom_script" \in DOMAIN pre /\ pre["custom_script"].t = "str"
    /\ Contains(template, HostnameToken \o <<"hostname">>)
    /\ Contains(ret.val, <<"hostnamectl", " ", "set-hostname", " ", "myhost">>)
    /\ Contains(ret.val, <<"echo", " ", "myhost">>)
    /\ Contains(ret.val, <<"myhost", "hostname">>)

\* an exception reaches the try block of build_script: the resolver raises on
\* a system_config of None, build_custom_script on a custom_script of None
PreviewFails(opts) ==
    \/ opts["system_config"].t = "none"
    \/ "custom_script" \in DOMAIN opts /\ opts["custom_script"].t = "none"

\* build_full_script fails on these and on a hostname of None
FullFails(opts) ==
    \/ PreviewFails(opts)
    \/ "hostname" \in DOMAIN opts /\ opts["hostname"].t = "none"

\* C10: build_script and build_full_script always return a text.  When an
\* exception reaches its try block, build_script returns comment lines that
\* start with '# Error building script preview: ', and build_full_script
\* returns the fallback script, which starts with '#!/bin/bash' and echoes the
\* error; otherwise neither returns these.
C10_AssemblerTotal ==
    /\ op \in {"build_script", "build_full_script"} => ~ret.exc
    /\ op = "build_script"
          => IF PreviewFails(pre)
             THEN /\ ret.val[1] = "# Error building script preview: "
                  /\ \A i \in 1..Len(Rendered) :
                         Rendered[i][1] \in {"# Error building script preview: ",
                                             "# Please check the logs for more information."}
             ELSE ret.val[1] = "(...)  # Script header and initial setup"
    /\ op = "build_full_script"
          => (FullFails(pre) <=> StartsWith(ret.val, FallbackPrefix))

\* C10 witness: build_full_script on a Selection whose system_config is None
\* returned the fallback script
C10_Witness ==
    /\ op = "build_full_script" /\ pre["system_config"].t = "none"
    /\ StartsWith(ret.val, FallbackPrefix)
    /\ Contains(ret.val, <<"argument of type 'NoneType' is not iterable">>)

\* C12: when an exception is raised inside one of the five renderers (the
\* dependency resolution of build_system_config and build_custom_script
\* included), the assembled text holds a '# Error' comment line in place of
\* that section and the other sections as they are without the failure: here,
\* the statements of build_system_upgrade, which never fails.
C12_RendererFailureContained ==
    (op \in {"build_script", "build_full_script"} /\ PreviewFails(pre))
        => /\ ~ret.exc
           /\ \E i \in 1..Len(Rendered) :
                  Rendered[i] # <<>>
                  /\ Rendered[i][1] \in {"# Error building system configuration: ",
                                         "# Error building script preview: "}
           /\ Contains(ret.val, build_system_upgrade(pre, output_mode).val)

---------------------------------------------------------------------------
(* Properties: malformed catalogs and stale Selections (checked under        *)
(* SpecCatalog)                                                              *)

\* a is b with some of b's elements left out
RECURSIVE IsSubsequence(_, _)
IsSubsequence(a, b) ==
    IF a = <<>> THEN TRUE
    ELSE IF b = <<>> THEN FALSE
    ELSE IF a[1] = b[1] THEN IsSubsequence(Tail(a), Tail(b))
    ELSE IsSubsequence(a, Tail(b))

\* the apps of the Selection's additional_apps, as [category, app_id, choice]
SelectedApps(opts) ==
    LET cats == SectionOrEmpty(opts, "additional_apps").items
    IN  UNION {{[category |-> cats[c].k, app_id |-> cats[c].v[a].k,
                 choice |-> cats[c].v[a].v] : a \in 1..Len(cats[c].v)} :
               c \in 1..Len(cats)}

\* a typed catalog entry chosen with a type that is absent or has no command,
\* or a plain entry with no command
Malformed(entry, choice) ==
    IF entry.has_installation_types /\ choice.has_installation_type
    THEN \/ ~Has(entry.installation_types, choice.installation_type)
         \/ ~Get(entry.installation_types, choice.installation_type, <<>>).has_command
    ELSE ~entry.has_command

\* the ids of the enabled entries of the Selection that are malformed in the
\* catalog
MalformedEnabled(opts) ==
    {e.k : e \in {x \in Range(SysItems(opts)) :
                     x.v /\ Has(nattd["system_config"], x.k)
                     /\ Malformed(Get(nattd["system_config"], x.k, <<>>), NoChoice)}}
    \cup
    {a.app_id : a \in {x \in SelectedApps(opts) :
        /\ x.choice.selected
        /\ Has(nattd["additional_apps"], x.category)
        /\ Has(Get(nattd["additional_apps"], x.category, <<>>).apps, x.app_id)
        /\ Malformed(Get(Get(nattd["additional_apps"], x.category, <<>>).apps,
                         x.app_id, <<>>), x.choice)}}
    \cup
    {e.k : e \in {x \in Range(SectionOrEmpty(opts, "customization").items) :
                     x.v.selected /\ Has(nattd["customization"], x.k)
                     /\ Malformed(Get(nattd["customization"], x.k, <<>>), x.v)}}

\* the Selection with the option `id` turned off
Deselect(opts, id) ==
    [k \in DOMAIN opts |->
        CASE k = "system_config" ->
               DictVal([i \in 1..Len(opts[k].items) |->
                   IF opts[k].items[i].k = id
                   THEN [k |-> id, v |-> FALSE] ELSE opts[k].items[i]])
          [] k = "additional_apps" ->
               DictVal([c \in 1..Len(opts[k].items) |->
                   [k |-> opts[k].items[c].k,
                    v |-> [a \in 1..Len(opts[k].items[c].v) |->
                              IF opts[k].items[c].v[a].k = id
                              THEN [k |-> id, v |-> Choice(FALSE, "")]
                              ELSE opts[k].items[c].v[a]]]])
          [] k = "customization" ->
               DictVal([i \in 1..Len(opts[k].items) |->
                   IF opts[k].items[i].k = id
                   THEN [k |-> id, v |-> Flag(FALSE)] ELSE opts[k].items[i]])
          [] OTHER -> opts[k]]

\* the lines that are not blank
Written(lines) == SelectSeq(lines, LAMBDA line : line # <<>>)

\* a '# Warning:' comment line; the comment build_system_config writes for an
\* entry without a command, '# Error: Invalid configuration for ...', is
\* counted as one
IsWarning(line) ==
    line # <<>> /\ line[1] \in {"# Warning: App ", "# Warning: Installation type ",
                                "# Warning: No command found for ",
                                "# Error: Invalid configuration for "}

Renderers ==
    {"build_system_upgrade", "build_system_config", "build_app_install",
     "build_customization", "build_custom_script"}

\* the first atoms of the comment lines the renderers write
CommentHeads ==
    {"# ", "# Install ", "# Install essential applications",
     "# Custom user-defined commands",
     "# Note: Docker group changes will take effect after logging out and back in",
     "# No customization options available", "# No customization options selected",
     "# Warning: App ", "# Warning: Installation type ",
     "# Warning: No command found for ", "# Error: Invalid configuration for ",
     "# Error: System configuration data not found",
     "# Error building system configuration: ",
     "# Error building application installation: ",
     "# Error building customization: "}

\* a line that is neither blank nor a comment
IsStatement(line) == line # <<>> /\ line[1] \notin CommentHeads

\* C11: when exactly one enabled entry is malformed in the catalog (no command,
\* or the chosen installation type absent or without a command), build_script
\* and build_full_script return a non-empty text that has a '# Warning:' line,
\* and every non-blank line of the text rendered with that entry turned off
\* is still there, in the same order.
C11_MalformedEntryWarned ==
    (op \in {"build_script", "build_full_script"}
     /\ Cardinality(MalformedEnabled(pre)) = 1)
        => /\ ~ret.exc /\ ret.val # <<>>
           /\ \E i \in 1..Len(Rendered) : IsWarning(Rendered[i])
           /\ \A id \in MalformedEnabled(pre) :
                  IsSubsequence(
                      Written(Lines(
                          IF op = "build_script"
                          THEN build_script(Deselect(pre, id), output_mode).val
                          ELSE build_full_script(template, Deselect(pre, id),
                                                 output_mode).val)),
                      Written(Rendered))


\* the line names the option by its id or by its catalog name
Mentions(line, id, entry) == id \in Range(line) \/ Contains(line, entry.name)

\* the statements the catalog holds for the option as it was chosen
CommandsOf(entry, choice) ==
    IF entry.has_installation_types /\ choice.has_installation_type
    THEN Get(entry.installation_types, choice.installation_type,
             [command |-> <<>>]).command
    ELSE entry.command

\* the rendered text holds the option's statements, or a warning or error
\* comment that names the option
Accounted(id, entry, choice) ==
    \/ \E i \in 1..Len(Rendered) :
           IsWarning(Rendered[i]) /\ Mentions(Rendered[i], id, entry)
    \/ /\ CommandsOf(entry, choice) # <<>>
       /\ \A c \in 1..Len(CommandsOf(entry, choice)) :
              \E i \in 1..Len(Rendered) :
                  StartsWith(Rendered[i], CommandsOf(entry, choice)[c])

\* C26: no enabled option of the catalog is dropped without a trace: for each
\* enabled system_config option, each selected additional app and each enabled
\* customization item that the catalog has, the text of its renderer holds
\* the option's statements or a '# Warning:' / '# Error:' comment naming it.
C26_NoEnabledOptionDropped ==
    /\ (op = "build_system_config" /\ ~ret.exc)
           => \A x \in Range(SysItems(pre)) :
                  (x.v /\ Has(nattd["system_config"], x.k))
                      => Accounted(x.k, Get(nattd["system_config"], x.k, <<>>), NoChoice)
    /\ (op = "build_app_install" /\ ~ret.exc)
           => \A a \in SelectedApps(pre) :
                  (/\ a.choice.selected
                   /\ Has(nattd["additional_apps"], a.category)
                   /\ Has(Get(nattd["additional_apps"], a.category, <<>>).apps,
                          a.app_id))
                      => Accounted(a.app_id,
                                   Get(Get(nattd["additional_apps"], a.category,
                                           <<>>).apps, a.app_id, <<>>),
                                   a.choice)
    /\ (op = "build_customization" /\ ~ret.exc)
           => \A x \in Range(SectionOrEmpty(pre, "customization").items) :
                  (x.v.selected /\ Has(nattd["customization"], x.k))
                      => Accounted(x.k, Get(nattd["customization"], x.k, <<>>), x.v)

\* C29: the Quiet and the Verbose text of each renderer have the same lines in
\* the same order; each Quiet line is the Verbose line, exactly or followed by
\* ' > /dev/null 2>&1', and no Verbose line has that redirection added.
C29_QuietOnlyAddsRedirection ==
    (op \in Renderers /\ ~ret.exc)
        => LET quiet == IF output_mode = "Quiet" THEN Rendered
                        ELSE Lines(RenderOf(op, pre, "Quiet").val)
               verbose == IF output_mode = "Verbose" THEN Rendered
                          ELSE Lines(RenderOf(op, pre, "Verbose").val)
           IN  /\ Len(quiet) = Len(verbose)
               /\ \A i \in 1..Len(verbose) :
                      /\ i <= Len(quiet)
                             => quiet[i] \in {verbose[i], Silenced(verbose[i])}
                      /\ verbose[i] # <<>>
                             => verbose[i][Len(verbose[i])] # QuietSuffix

\* C29 witness: a Quiet text of build_system_config in which the catalog's
\* statement has the redirection while its comment line has none
C29_Witness ==
    /\ op = "build_system_config" /\ output_mode = "Quiet" /\ ~ret.exc
    /\ Emitted(Silenced(Dnf("htop")))
    /\ Dnf("htop") \in Range(Lines(RenderOf(op, pre, "Verbose").val))
    /\ Emitted(<<"# ", "Configure DNF">>)

\* nothing of the Selection is enabled and its custom script is empty
NothingEnabled(opts) ==
    /\ \A x \in Range(SectionOrEmpty(opts, "system_config").items) : ~x.v
    /\ \A x \in Range(SectionOrEmpty(opts, "essential_apps").items) : ~x.v
    /\ \A a \in SelectedApps(opts) : ~a.choice.selected
    /\ \A x \in Range(SectionOrEmpty(opts, "customization").items) : ~x.v.selected
    /\ "custom_script" \in DOMAIN opts => Strip(opts["custom_script"].items) = <<>>

UpgradeStatements(lines) ==
    /\ Len(lines) = 2
    /\ lines[1] = <<"color_echo", " ", "\"blue\"", " ",
                    "\"Performing system upgrade... This may take a while...\"">>
    /\ StartsWith(lines[2], <<"dnf", " ", "upgrade", " ", "-y">>)

Unstale(opts) ==
    [k \in DOMAIN opts |->
        CASE k = "system_config" ->
               DictVal(SelectSeq(opts[k].items,
                                 LAMBDA x : Has(nattd["system_config"], x.k)))
          [] k = "essential_apps" ->
               DictVal(SelectSeq(opts[k].items,
                                 LAMBDA x : \E a \in 1..Len(nattd["essential_apps"]) :
                                               nattd["essential_apps"][a].name = x.k))
          [] k = "additional_apps" ->
               DictVal(LET known == SelectSeq(opts[k].items,
                                     LAMBDA c : Has(nattd["additional_apps"], c.k))
                       IN  [c \in 1..Len(known) |->
                              [k |-> known[c].k,
                               v |-> SelectSeq(known[c].v,
                                        LAMBDA x : Has(Get(nattd["additional_apps"],
                                                           known[c].k, <<>>).apps, x.k))]])
          [] k = "customization" ->
               DictVal(SelectSeq(opts[k].items,
                                 LAMBDA x : Has(nattd["customization"], x.k)))
          [] OTHER -> opts[k]]

\* the statements of a text, in order
Statements(text) == SelectSeq(Lines(text), IsStatement)

\* C15: for a Selection that holds ids the catalog does not have, every
\* renderer returns normally and a stale id adds nothing but, at most, a
\* '# Warning:' comment: the statements of the text are those of the text
\* rendered for the Selection without its stale ids.
C15_StaleIdsEmitNothing ==
    (op \in Renderers /\ Unstale(pre) # pre)
        => /\ ~ret.exc
           /\ Statements(ret.val) = Statements(RenderOf(op, Unstale(pre), output_mode).val)

---------------------------------------------------------------------------
(* Properties: the catalog store (checked under SpecStore) *)

AllSectionsEmpty(catalog) ==
    /\ DOMAIN catalog = {"system_config", "essential_apps", "additional_apps",
                         "customization"}
    /\ \A section \in DOMAIN catalog : catalog[section] = <<>>

\* C14: a load_nattd call that reads nattd.json while the file is missing or
\* malformed returns (and caches) a catalog whose four sections are empty, and
\* does not raise; on that catalog every renderer returns without error and
\* writes no statement for any option: the only statements are the two of
\* build_system_upgrade, which belong to no catalog option.
C14_UnreadableCatalogDegrades ==
    /\ [][(cache' # cache /\ ~document.parses)
             => AllSectionsEmpty(nattd') /\ cache'.value = nattd']_vars
    /\ []((op \in Renderers /\ AllSectionsEmpty(nattd))
             => /\ ~ret.exc
                /\ op # "build_system_upgrade"
                      => \A i \in 1..Len(Rendered) : ~IsStatement(Rendered[i]))

\* C14 witness: with nattd.json unreadable and the empty catalog loaded,
\* build_app_install returned for a Selection with every option on
C14_Witness ==
    /\ op = "build_app_install" /\ ~document.parses /\ AllSectionsEmpty(nattd)
    /\ cache.value = nattd /\ pre = Everything(TRUE) /\ ~ret.exc


\* C19: at every point of a session, a load_nattd call through its one-hour
\* cache returns the catalog an uncached reload of nattd.json returns at that
\* moment, also after a load that failed and across the expiry of the cache.
C19_CacheTransparent ==
    [][(op' \in {"load_nattd", "load_nattd_cached"}
        /\ document' = document /\ now' = now)
           => nattd' = load_nattd(document)]_vars


---------------------------------------------------------------------------
(* Properties: two Selections, two sessions (checked under SpecPairs and     *)
(* SpecSessions)                                                             *)

\* the system_config option is enabled in the Selection
EnabledIn(opts, option) ==
    /\ "system_config" \in DOMAIN opts
    /\ [k |-> option, v |-> TRUE] \in Range(opts["system_config"].items)

\* every system_config option and app enabled in s is enabled in t
Includes(s, t) ==
    /\ \A option \in SysKeys : EnabledIn(s, option) => EnabledIn(t, option)
    /\ \A a \in SelectedApps(s) :
           a.choice.selected
               => \E b \in SelectedApps(t) :
                      b.category = a.category /\ b.app_id = a.app_id
                      /\ b.choice.selected

\* C17: resolution is monotone: when every option enabled in the Selection s
\* is enabled in s' as well, every system_config option enabled in
\* check_dependencies(s) is enabled in check_dependencies(s').
C17_ResolutionMonotone ==
    (/\ sessions[1].op = "check_dependencies"
     /\ sessions[2].op = "check_dependencies"
     /\ Includes(sessions[1].options, sessions[2].options))
        => /\ ~sessions[1].ret.exc /\ ~sessions[2].ret.exc
           /\ \A option \in SysKeys :
                  EnabledIn(sessions[1].ret.val, option)
                      => EnabledIn(sessions[2].ret.val, option)

\* C17 witness: s enables a codec only, s' enables more, and both
\* resolutions enabled enable_rpmfusion
C17_Witness ==
    /\ sessions[1].op = "check_dependencies"
    /\ sessions[2].op = "check_dependencies"
    /\ EnabledIn(sessions[1].options, "install_amd_codecs")
    /\ ~EnabledIn(sessions[1].options, "enable_rpmfusion")
    /\ ~EnabledIn(sessions[1].options, "configure_dnf")
    /\ EnabledIn(sessions[2].options, "configure_dnf")
    /\ EnabledIn(sessions[1].ret.val, "enable_rpmfusion")
    /\ EnabledIn(sessions[2].ret.val, "enable_rpmfusion")

\* C20: no renderer writes to the catalog load_nattd returned, so in every
\* interleaving of the renders of two sessions each text a session has got is
\* the text its renderer returns for its Selection and mode alone.
C20_RendersDoNotInterfere ==
    /\ nattd = document.data
    /\ \A i \in 1..Len(sessions) : \A n \in 1..Len(sessions[i].parts) :
           sessions[i].parts[n]
               = RenderOf(RendererNames[n], sessions[i].options,
                          sessions[i].output_mode).val

\* C20 witness: two sessions with different Selections and modes have each
\* got their five texts, the second after the first had called
\* build_system_config and before it had finished
C20_Witness ==
    /\ Len(sessions[1].parts) = 5 /\ Len(sessions[2].parts) = 5
    /\ sessions[1].options # sessions[2].options
    /\ sessions[1].output_mode = "Quiet" /\ sessions[2].output_mode = "Verbose"
    /\ Contains(sessions[1].parts[2],
                <<"hostnamectl", " ", "set-hostname", " ", "myhost">>)
    /\ Contains(sessions[2].parts[2],
                <<"hostnamectl", " ", "set-hostname", " ", "hostname">>)


---------------------------------------------------------------------------
(* Properties: the sidebar and the session state (checked under SpecSidebar) *)

\* C18: in every state reached through the sidebar and update_options, the
\* Selection get_options returns has the hostname key only if set_hostname
\* is enabled in it, in particular after set_hostname was enabled, a
\* hostname entered and set_hostname disabled again.
C18_HostnameOnlyWithSetHostname ==
    "hostname" \in DOMAIN get_options(app_state)
        => EnabledIn(get_options(app_state), "set_hostname")


---------------------------------------------------------------------------
(* Properties: the main panel (checked under SpecPanel) *)

\* C21: two calls of build_script, or of build_full_script, with equal
\* Selection, verbosity and template on the catalog load_nattd returned give
\* equal texts, whatever renders and state updates came between them.
C21_AssemblerKeepsNoState ==
    /\ nattd = document.data
    /\ \A i, j \in 1..Len(calls) :
           (/\ calls[i].name = calls[j].name
            /\ calls[i].options = calls[j].options
            /\ calls[i].output_mode = calls[j].output_mode
            /\ calls[i].template = calls[j].template)
               => calls[i].text = calls[j].text

\* C21 witness: the same Selection was built in Quiet mode twice, with a build
\* of another Selection and the state updates of the button between the two
C21_Witness ==
    /\ Len(calls) = 3 /\ app_state.script_built
    /\ calls[1].name = "build_full_script" /\ calls[3].name = "build_full_script"
    /\ calls[1].options = calls[3].options /\ calls[1].output_mode = "Quiet"
    /\ calls[3].output_mode = "Quiet"
    /\ calls[2].options # calls[1].options
    /\ calls[1].text = calls[3].text
    /\ Contains(calls[1].text, <<"hostnamectl", " ", "set-hostname", " ", "myhost">>)


\* C27: whenever script_built is true, full_script is the text that
\* build_full_script gives for the template, the Selection of get_options()
\* and the output mode the state holds now.
C27_FullScriptCurrent ==
    app_state.script_built =>
        app_state.full_script =
            StrVal(build_full_script(template, get_options(app_state),
                                     app_state.output_mode).val)


---------------------------------------------------------------------------
(* Properties: the sidebar's search (checked under SpecSearch) *)

\* the two dicts hold the same choice, or both none, for the key
SameChoice(before, after, key) ==
    /\ Has(before, key) <=> Has(after, key)
    /\ Has(before, key) => Get(before, key, NoChoice) = Get(after, key, NoChoice)

\* the entries of a catalog section that the search hides
Hidden(section, search_query) ==
    {i \in 1..Len(section) :
        ~matches_search(section[i].v.name, section[i].v.description, search_query)}

\* every option the query hides has the same stored choice in both Selections
HiddenKept(before, after, search_query) ==
    /\ \A i \in Hidden(nattd["system_config"], search_query) :
           SameChoice(before["system_config"].items, after["system_config"].items,
                      nattd["system_config"][i].k)
    /\ \A i \in Hidden(nattd["customization"], search_query) :
           SameChoice(before["customization"].items, after["customization"].items,
                      nattd["customization"][i].k)
    /\ \A i \in 1..Len(nattd["essential_apps"]) :
           ~matches_search(<<nattd["essential_apps"][i].name>>, <<>>, search_query)
               => SameChoice(before["essential_apps"].items,
                             after["essential_apps"].items,
                             nattd["essential_apps"][i].name)
    /\ \A c \in 1..Len(nattd["additional_apps"]) :
           LET category == nattd["additional_apps"][c]
           IN  \A i \in Hidden(category.v.apps, search_query) :
                   SameChoice(Get(before["additional_apps"].items, category.k, <<>>),
                              Get(after["additional_apps"].items, category.k, <<>>),
                              category.v.apps[i].k)

\* C28: a run of the sidebar with a search query leaves the stored choice of
\* every option the query hides as it was.
C28_HiddenChoicesKept ==
    \A widgets \in SearchWidgets :
        HiddenKept(get_options(app_state),
                   get_options(render_sidebar(app_state, widgets)),
                   widgets.search_query)


---------------------------------------------------------------------------
(* Properties: layout of the assembled texts (checked under SpecAssemble) *)

\* the title comment of each section of the preview, in the fixed order
SectionTitles ==
    <<"System Upgrade", "System Config", "App Install", "Customization",
      "Custom Script">>

\* the text the i-th renderer returns for the Selection and the mode
SectionText(i, opts, mode) == RenderOf(RendererNames[i], opts, mode).val

\* title comment and text of the i-th section when the text is not blank,
\* nothing otherwise
TitledSection(i, opts, mode) ==
    IF Strip(SectionText(i, opts, mode)) # <<>>
    THEN <<"# ", SectionTitles[i], "\n">> \o SectionText(i, opts, mode)
         \o <<"\n", "\n">>
    ELSE <<>>

\* C22: the text build_script returns always starts with the header line
\* '(...)  # Script header and initial setup' and ends with
\* '(...)  # Script footer'; between them stand, in the order upgrade, system
\* configuration, application install, customization, custom script, the
\* title comment and the text of exactly the sections whose text is not blank.
C22_PreviewLayout ==
    op = "build_script" =>
        ret.val = <<"(...)  # Script header and initial setup", "\n", "\n">>
                  \o TitledSection(1, pre, output_mode)
                  \o TitledSection(2, pre, output_mode)
                  \o TitledSection(3, pre, output_mode)
                  \o TitledSection(4, pre, output_mode)
                  \o TitledSection(5, pre, output_mode)
                  \o <<"(...)  # Script footer">>


\* the text that stands for the hostname token
HostnameValue(opts) ==
    IF "hostname" \in DOMAIN opts THEN opts["hostname"].items ELSE DefaultHostname

\* the slots that start the text
SlotsAt(text) == {i \in 1..Len(placeholders) : StartsWith(text, Slot(placeholders[i]))}

\* the template read once from left to right: each slot token gives way to
\* its section's text, each hostname token to the hostname, and every other
\* piece of the template stays; what was put in is not read again
RECURSIVE Filled(_, _, _)
Filled(text, opts, mode) ==
    IF text = <<>> THEN <<>>
    ELSE IF SlotsAt(text) # {}
    THEN LET i == CHOOSE j \in SlotsAt(text) : TRUE
         IN  SectionText(i, opts, mode)
             \o Filled(SubSeq(text, Len(Slot(placeholders[i])) + 1, Len(text)),
                       opts, mode)
    ELSE IF StartsWith(text, HostnameToken)
    THEN HostnameValue(opts)
         \o Filled(SubSeq(text, Len(HostnameToken) + 1, Len(text)), opts, mode)
    ELSE <<Head(text)>> \o Filled(Tail(text), opts, mode)

\* C23: the text build_full_script returns is the template with every slot
\* token replaced by the text its renderer returns for the same Selection and
\* verbosity, the hostname token replaced by the hostname, and every other
\* piece of the template unchanged.
C23_SlotsFilled ==
    op = "build_full_script" => ret.val = Filled(template, pre, output_mode)


\* C30: for every custom_script text, the text stripped of leading and
\* trailing whitespace stands unmodified in the script build_full_script
\* returns, directly after the comment '# Custom user-defined commands'; an
\* empty or whitespace-only text gives an empty custom-script section.
C30_CustomScriptVerbatim ==
    (/\ op = "build_full_script"
     /\ "custom_script" \in DOMAIN pre
     /\ pre["custom_script"].t = "str")
        => IF Strip(pre["custom_script"].items) # <<>>
           THEN Contains(ret.val, <<"# Custom user-defined commands", "\n">>
                                  \o Strip(pre["custom_script"].items) \o <<"\n">>)
           ELSE ~Contains(ret.val, <<"# Custom user-defined commands">>)

===========================================================================
